---------------------------- MODULE Spec2Model ----------------------------
(***************************************************************************)
(* K-12 background check interpreter: the local code lookup, the           *)
(* multi-source verification pipeline (verifyCode), the batch orchestrator *)
(* (performComprehensiveAnalysis) and the Analyze handler of the UI; the   *)
(* aggregation functions, parseCodeString, withRetry, the chat entry       *)
(* points with their guardrails, the chat component and the page handlers  *)
(* over several submissions.                                               *)
(*                                                                         *)
(* Strings that the code inspects character by character (offense codes)   *)
(* are sequences of one-character strings; opaque texts are TLA+ strings.  *)
(***************************************************************************)
EXTENDS Integers, Sequences, FiniteSets, TLC

(***************************************************************************)
(* Bounds of the model                                                     *)
(***************************************************************************)
\* verifyCode calls made in one behaviour of SpecVerify
MaxCalls == 2
\* codes in one submitted batch
MaxBatch == 2

(***************************************************************************)
(* Characters and strings                                                  *)
(***************************************************************************)
Digits == {"0", "1", "2", "3", "4", "5", "6", "7", "8", "9"}

LowerSeq == <<"a", "b", "c", "d", "e", "f", "g", "h", "i", "j", "k", "l", "m",
              "n", "o", "p", "q", "r", "s", "t", "u", "v", "w", "x", "y", "z">>

UpperSeq == <<"A", "B", "C", "D", "E", "F", "G", "H", "I", "J", "K", "L", "M",
              "N", "O", "P", "Q", "R", "S", "T", "U", "V", "W", "X", "Y", "Z">>

Lowers == {LowerSeq[i] : i \in DOMAIN LowerSeq}

Uppers == {UpperSeq[i] : i \in DOMAIN UpperSeq}

\* \w of a JavaScript regular expression
WordChars == Digits \cup Lowers \cup Uppers \cup {"_"}

\* [a-z0-9] under the i flag
AlnumChars == Digits \cup Lowers \cup Uppers

UpperChar(c) ==
  IF c \in Lowers
    THEN UpperSeq[CHOOSE i \in DOMAIN LowerSeq : LowerSeq[i] = c]
    ELSE c

toUpperCase(s) == [i \in DOMAIN s |-> UpperChar(s[i])]

RECURSIVE trimLeft(_)
trimLeft(s) ==
  IF s # <<>> /\ s[1] = " " THEN trimLeft(Tail(s)) ELSE s

RECURSIVE trimRight(_)
trimRight(s) ==
  IF s # <<>> /\ s[Len(s)] = " " THEN trimRight(SubSeq(s, 1, Len(s) - 1)) ELSE s

trim(s) == trimRight(trimLeft(s))

\* s.replace(/\s+/g, '')
RECURSIVE removeSpaces(_)
removeSpaces(s) ==
  IF s = <<>> THEN <<>>
  ELSE IF s[1] = " " THEN removeSpaces(Tail(s))
  ELSE <<s[1]>> \o removeSpaces(Tail(s))

\* the whitespace-separated pieces of a string
RECURSIVE splitSpaces(_, _)
splitSpaces(s, cur) ==
  IF s = <<>> THEN (IF cur = <<>> THEN <<>> ELSE <<cur>>)
  ELSE IF s[1] = " "
    THEN (IF cur = <<>> THEN <<>> ELSE <<cur>>) \o splitSpaces(Tail(s), <<>>)
    ELSE splitSpaces(Tail(s), Append(cur, s[1]))

\* number of leading characters of s, from index i on, that are in set cs
RECURSIVE runLength(_, _, _)
runLength(s, i, cs) ==
  IF i <= Len(s) /\ s[i] \in cs THEN 1 + runLength(s, i + 1, cs) ELSE 0

\* /^\d{4}$/
isFourDigits(s) == Len(s) = 4 /\ \A i \in 1..4 : s[i] \in Digits

\* /^\w+$/
isWord(s) == s # <<>> /\ \A i \in DOMAIN s : s[i] \in WordChars

\* /^(?:\([a-z0-9]+\))*$/i
RECURSIVE isSubdivisions(_)
isSubdivisions(s) ==
  IF s = <<>> THEN TRUE
  ELSE IF s[1] # "(" THEN FALSE
  ELSE LET n == runLength(s, 2, AlnumChars)
       IN  /\ n > 0
           /\ 2 + n <= Len(s)
           /\ s[2 + n] = ")"
           /\ isSubdivisions(SubSeq(s, 3 + n, Len(s)))

\* length of the \d+(?:\.\d+)? prefix of s (0: none)
baseLength(s) ==
  LET withFraction(n1, n2) ==
        IF n1 = 0 THEN 0 ELSE IF n2 > 0 THEN n1 + 1 + n2 ELSE n1
      withInteger(n1) ==
        withFraction(n1, IF n1 > 0 /\ n1 + 1 <= Len(s) /\ s[n1 + 1] = "."
                           THEN runLength(s, n1 + 2, Digits) ELSE 0)
  IN  withInteger(runLength(s, 1, Digits))

\* /^\d+(?:\.\d+)?(?:\([a-z0-9]+\))*$/i
isCodeNum(s) ==
  LET rest(n) == n > 0 /\ isSubdivisions(SubSeq(s, n + 1, Len(s)))
  IN  rest(baseLength(s))

PC == <<"P", "C">>
HS == <<"H", "S">>
VC == <<"V", "C">>
BP == <<"B", "P">>
WI == <<"W", "I">>
FC == <<"F", "C">>
NCIC == <<"N", "C", "I", "C">>
UNKNOWN == <<"U", "N", "K", "N", "O", "W", "N">>

(***************************************************************************)
(* parseCodeString.  An absent optional field (subdivision) is <<>>.      *)
(***************************************************************************)
\* the match of codePattern on the cleaned input: [ok, prefix, codeNum, suffix]
codePatternMatch(cleaned) ==
  LET matchTokens(t) ==
        IF Len(t) = 1 /\ isCodeNum(t[1])
          THEN [ok |-> TRUE, prefix |-> <<>>, codeNum |-> t[1], suffix |-> <<>>]
        ELSE IF Len(t) = 2 /\ isWord(t[1]) /\ isCodeNum(t[2])
          THEN [ok |-> TRUE, prefix |-> t[1], codeNum |-> t[2], suffix |-> <<>>]
        ELSE IF Len(t) = 2 /\ isCodeNum(t[1]) /\ isWord(t[2])
          THEN [ok |-> TRUE, prefix |-> <<>>, codeNum |-> t[1], suffix |-> t[2]]
        ELSE IF Len(t) = 3 /\ isWord(t[1]) /\ isCodeNum(t[2]) /\ isWord(t[3])
          THEN [ok |-> TRUE, prefix |-> t[1], codeNum |-> t[2], suffix |-> t[3]]
        ELSE [ok |-> FALSE, prefix |-> <<>>, codeNum |-> <<>>, suffix |-> <<>>]
  IN  matchTokens(splitSpaces(cleaned, <<>>))

\* a choice that reads the word before the number only
prefixOnly(prefix, suffix) == IF prefix # <<>> THEN prefix ELSE PC

\* the statute chosen from the prefix and the suffix
statuteOf(prefix, suffix) ==
  IF prefix = VC \/ suffix = VC THEN VC
  ELSE IF prefix = HS \/ suffix = HS THEN HS
  ELSE IF prefix = PC \/ suffix = PC THEN PC
  ELSE IF prefix = BP \/ suffix = BP THEN BP
  ELSE IF prefix = WI \/ suffix = WI THEN WI
  ELSE IF prefix # <<>> THEN prefix
  ELSE IF suffix # <<>> THEN suffix
  ELSE PC

parseCodeString(input) ==
  LET matched(m, n) ==
        [rawCode |-> input,
         normalizedCode |-> SubSeq(m.codeNum, 1, n),
         statute |-> statuteOf(m.prefix, m.suffix),
         subdivision |-> SubSeq(m.codeNum, n + 1, Len(m.codeNum))]
      parsed(cleaned, m) ==
        IF isFourDigits(cleaned)
          THEN [rawCode |-> input, normalizedCode |-> cleaned,
                statute |-> NCIC, subdivision |-> <<>>]
        ELSE IF m.ok THEN matched(m, baseLength(m.codeNum))
        ELSE [rawCode |-> input, normalizedCode |-> removeSpaces(cleaned),
              statute |-> UNKNOWN, subdivision |-> <<>>]
      parseCleaned(cleaned) == parsed(cleaned, codePatternMatch(cleaned))
  IN  parseCleaned(toUpperCase(trim(input)))


(***************************************************************************)
(* Static reference tables (ca-violent-felonies.json, ca-serious-          *)
(* felonies.json, ca-penal-codes.json, ncic-codes.json).  A citation is a  *)
(* pair <<text, subdivision>>; a note that is absent is "undefined".       *)
(***************************************************************************)
violentFelonies ==
  << [code |-> <<"2", "1", "1">>, description |-> "Robbery",
      subdivision |-> "(c)(9)", note |-> "undefined"],
     [code |-> <<"1", "8", "7">>, description |-> "Murder",
      subdivision |-> "(c)(1)", note |-> "Includes attempted murder"],
     \* a four-digit section number that is also a key of the NCIC table
     [code |-> <<"1", "3", "0", "1">>, description |-> "Violent felony 1301",
      subdivision |-> "(c)(23)", note |-> "undefined"] >>

seriousFelonies ==
  << [code |-> <<"2", "1", "1">>, description |-> "Robbery or bank robbery",
      subdivision |-> "(c)(19)", alsoViolent |-> TRUE, note |-> "undefined"],
     [code |-> <<"4", "5", "9">>, description |-> "First degree burglary",
      subdivision |-> "(c)(18)", alsoViolent |-> FALSE,
      note |-> "Residential burglary only"],
     [code |-> <<"2", "4", "5">>, description |-> "Assault with a deadly weapon",
      subdivision |-> "(c)(31)", alsoViolent |-> TRUE, note |-> "undefined"] >>

\* penalCodes.codes as loaded; hasCitations: the entry has a citations array
penalCodesLoaded ==
  (<<"2", "1", "1">> :> [description |-> "Robbery", category |-> "Robbery",
                         k12Impact |-> "mandatory-disqualifier",
                         hasCitations |-> TRUE,
                         citations |-> << <<"PC 211", "">> >>,
                         note |-> "undefined"])
  @@ (<<"4", "8", "4">> :> [description |-> "Petty theft",
                            category |-> "Theft/Larceny",
                            k12Impact |-> "non-disqualifying",
                            hasCitations |-> TRUE,
                            citations |-> << <<"PC 484", "">> >>,
                            note |-> "Misdemeanor"])
  @@ (<<"4", "5", "9">> :> [description |-> "Burglary", category |-> "Burglary",
                            k12Impact |-> "review-required",
                            hasCitations |-> FALSE, citations |-> <<>>,
                            note |-> "undefined"])

ncicCodes ==
  (<<"1", "3", "0", "1">> :> [description |-> "Aggravated assault",
                              category |-> "Assault",
                              k12Impact |-> "review-required"])
  @@ (<<"1", "2", "0", "1">> :> [description |-> "Robbery - business",
                                 category |-> "Robbery",
                                 k12Impact |-> "mandatory-disqualifier"])

\* Array.prototype.find: the first offense of the list with this code, or none
findOffense(list, code) ==
  LET hits == {i \in DOMAIN list : list[i].code = code}
  IN  IF hits = {} THEN [found |-> FALSE]
      ELSE [found |-> TRUE,
            entry |-> list[CHOOSE i \in hits : \A j \in hits : i <= j]]

\* [...new Set(citations)]: first occurrences, in order
RECURSIVE dedupe(_, _)
dedupe(s, seen) ==
  IF s = <<>> THEN <<>>
  ELSE IF s[1] \in seen THEN dedupe(Tail(s), seen)
  ELSE <<s[1]>> \o dedupe(Tail(s), seen \cup {s[1]})

(***************************************************************************)
(* lookupCode(input) against the penal-code table `penal` (the other       *)
(* tables are never written).  lookupCodeCitations is the citations array  *)
(* the function works on after its pushes: the table entry's own array     *)
(* when the entry has one.                                                 *)
(***************************************************************************)
lookupUsesNcic(parsed, ncic) ==
  /\ (parsed.statute = NCIC \/ isFourDigits(parsed.normalizedCode))
  /\ parsed.normalizedCode \in DOMAIN ncic

lookupCodeCitations(input, penal) ==
  LET pushed(key, violentMatch, seriousMatch) ==
        (IF key \in DOMAIN penal /\ penal[key].hasCitations
           THEN penal[key].citations ELSE <<>>)
        \o (IF violentMatch.found
              THEN << <<"PC 667.5", violentMatch.entry.subdivision>> >>
              ELSE <<>>)
        \o (IF seriousMatch.found /\ ~violentMatch.found
              THEN << <<"PC 1192.7", seriousMatch.entry.subdivision>> >>
              ELSE <<>>)
      forKey(key) == pushed(key, findOffense(violentFelonies, key),
                            findOffense(seriousFelonies, key))
  IN  forKey(parseCodeString(input).normalizedCode)

\* the penal-code table after lookupCode(input): citations.push writes through
\* to the entry's array when `citations` aliases it
lookupCodeTable(input, penal) ==
  LET written(parsed, citations) ==
        IF lookupUsesNcic(parsed, ncicCodes) THEN penal
        ELSE IF /\ parsed.normalizedCode \in DOMAIN penal
                /\ penal[parsed.normalizedCode].hasCitations
          THEN [penal EXCEPT ![parsed.normalizedCode].citations = citations]
        ELSE penal
  IN  written(parseCodeString(input), lookupCodeCitations(input, penal))

\* the OffenseInfo returned by lookupCode(input).  It has no `verified` and no
\* `confidence` field.
lookupCode(input, penal) ==
  LET ncicInfo(key, entry) ==
        [code |-> key,
         statute |-> NCIC,
         description |-> entry.description,
         category |-> entry.category,
         k12Impact |-> entry.k12Impact,
         citations |-> <<>>,
         note |-> "undefined",
         isViolentFelony |->
           /\ entry.k12Impact = "mandatory-disqualifier"
           /\ entry.category \in
                {"Homicide", "Sex Offense", "Kidnapping", "Robbery"},
         isSeriousFelony |-> entry.k12Impact = "mandatory-disqualifier",
         exemptionAvailable |-> entry.k12Impact = "review-required"]
      info(parsed, isViolentFelony, isSeriousFelony, k12Impact, description,
           category, note, citations) ==
        [code |-> parsed.normalizedCode \o parsed.subdivision,
         statute |-> parsed.statute,
         description |-> description,
         category |-> category,
         k12Impact |-> k12Impact,
         citations |-> dedupe(citations, {}),
         note |-> note,
         isViolentFelony |-> isViolentFelony,
         isSeriousFelony |-> isSeriousFelony,
         exemptionAvailable |->
           \/ k12Impact = "has-exemption-path"
           \/ (isSeriousFelony /\ ~isViolentFelony)]
      penalInfo(parsed, key, violentMatch, seriousMatch, seriousOnly, hasPenal) ==
        info(parsed, violentMatch.found, seriousMatch.found,
             IF seriousOnly
               THEN (IF seriousMatch.entry.alsoViolent
                       THEN "mandatory-disqualifier" ELSE "has-exemption-path")
             ELSE IF violentMatch.found THEN "mandatory-disqualifier"
             ELSE IF hasPenal THEN penal[key].k12Impact
             ELSE "unknown",
             IF seriousOnly THEN seriousMatch.entry.description
             ELSE IF violentMatch.found THEN violentMatch.entry.description
             ELSE IF hasPenal THEN penal[key].description
             ELSE "statute and number",
             IF seriousOnly THEN "Serious Felony"
             ELSE IF violentMatch.found THEN "Violent Felony"
             ELSE IF hasPenal THEN penal[key].category
             ELSE "Other",
             IF seriousOnly /\ seriousMatch.entry.note # "undefined"
               THEN seriousMatch.entry.note
             ELSE IF violentMatch.found /\ violentMatch.entry.note # "undefined"
               THEN violentMatch.entry.note
             ELSE IF hasPenal THEN penal[key].note
             ELSE "undefined",
             lookupCodeCitations(input, penal))
      matched(parsed, key, violentMatch, seriousMatch) ==
        penalInfo(parsed, key, violentMatch, seriousMatch,
                  seriousMatch.found /\ ~violentMatch.found, key \in DOMAIN penal)
      looked(parsed) ==
        IF lookupUsesNcic(parsed, ncicCodes)
          THEN ncicInfo(parsed.normalizedCode, ncicCodes[parsed.normalizedCode])
          ELSE matched(parsed, parsed.normalizedCode,
                       findOffense(violentFelonies, parsed.normalizedCode),
                       findOffense(seriousFelonies, parsed.normalizedCode))
  IN  looked(parseCodeString(input))

(***************************************************************************)
(* State                                                                   *)
(***************************************************************************)
VARIABLES
  penalCodes,    \* penalCodes.codes, the only table lookupCode writes to
  openaiKeySet,  \* config.openai.apiKey is set: new OpenAI(...) succeeds
  \* one verifyCode call, stage by stage
  vPc,           \* "idle", "rag", "gpt", "web", "done" or "thrown"
  vCode,         \* the code being verified
  vLocal,        \* the OffenseInfo of step 1
  vConsulted,    \* the sources consulted so far, in order
  vAttempt,      \* failed attempts of the analysis call so far
  vSeen,         \* what each oracle answered in this call
  vResult,       \* the VerifiedResult returned
  vCalls,        \* verifyCode calls started
  \* the Analyze action: handleCodesSubmit and performComprehensiveAnalysis
  analysisStatus,  \* "idle", "analyzing", "complete" or "error"
  extractedCodes,  \* the ExtractedCode list of the last submission
  analysis,        \* the ComprehensiveAnalysis shown, or NoAnalysis
  bPc,           \* where performComprehensiveAnalysis stands
  bCodes,        \* its argument, the code strings
  enrichRun,     \* per position: the EnrichedCodeInfo of its enrichOffenseCode
  aiRun,         \* per position: the AIAnalysisResult of its analyzeOffenseCode
  verifyRun,     \* per position: the VerifiedResult of its verifyCode
  localRun,      \* per position: the localResult of step 1 of its verifyCode
  aiFailed,      \* positions whose classification call failed after its retries
  oracleAnswered, \* some oracle request of the batch got a response
  arrival,       \* history: completions seen out of position order, and a
                 \* verification seen to finish before its enrichment
  \* one call of an aggregation function
  aggInput,      \* the classifications of the records aggregated, in order
  aggResult,     \* the function applied and what it returned, or NoAnalysis
  \* lookupCode calls, one after the other
  lookupLog,     \* the input and the OffenseInfo of each call so far
  \* one parseCodeString call
  parseInput,    \* its argument
  parsedCode,    \* the ParsedCode it returned, or Pending
  \* one chat turn: a call of chatAboutAnalysis or of streamChatResponse
  chatPc,        \* "idle", "awaiting" (the oracle request is out) or "done"
  chatCall,      \* the entry point called and its messages argument
  chatRequests,  \* the message lists sent to the chat oracle
  chatReply,     \* what the call returned or yielded, or Pending
  retry,         \* one withRetry call inside analyzeOffenseCode
  chatUi,        \* the chat component: messages, isStreaming, last input accepted
  session        \* the submissions of the page: pending extractions, batches, cleared

tableVars == <<penalCodes, openaiKeySet>>

batchVars == <<analysisStatus, extractedCodes, analysis, bPc, bCodes, enrichRun,
               aiRun, verifyRun, localRun, aiFailed, oracleAnswered, arrival>>

verifyVars == <<vPc, vCode, vLocal, vConsulted, vAttempt, vSeen, vResult, vCalls>>

chatVars == <<chatPc, chatCall, chatRequests, chatReply>>

pureVars == <<aggInput, aggResult, lookupLog, parseInput, parsedCode, chatVars,
             retry,
             chatUi,
             session>>

(***************************************************************************)
(* Inputs: the code strings submitted, and what the oracles may answer     *)
(***************************************************************************)
\* "211 PC": in the violent-felony, serious-felony and penal-code tables
Code211 == <<"2", "1", "1", " ", "P", "C">>
\* "484 PC": in the penal-code table only
Code484 == <<"4", "8", "4", " ", "P", "C">>
\* "999 PC": in no local table
Code999 == <<"9", "9", "9", " ", "P", "C">>
\* "1301": a 4-digit NCIC code of the NCIC table
Code1301 == <<"1", "3", "0", "1">>

Codes == {Code211, Code484, Code999, Code1301}

\* model.generateContent of queryOffenseCode: it throws ("error"), or the text
\* holds a JSON object with found true / false / no found field, or the text
\* holds no JSON object ("text"), or one that does not parse ("badjson")
RagResponses ==
  {"error", "json-found", "json-notfound", "json-nofield", "text", "badjson"}

\* model.generateContent of queryK12DisqualificationRules
K12Responses == {"ok", "error"}

\* chat.completions.create of analyzeOffenseCode once an attempt succeeded:
\* an empty content, a content that does not parse, or a JSON object whose
\* confidence is one of the three levels, absent, or any other string
GptResponses ==
  {[kind |-> "empty", k12Classification |-> "missing", confidence |-> "missing"],
   [kind |-> "badjson", k12Classification |-> "missing", confidence |-> "missing"]}
  \cup [kind : {"json"},
        k12Classification : {"mandatory-disqualifier", "has-exemption-path",
                             "non-disqualifying", "review-required", "missing"},
        confidence : {"high", "medium", "low", "missing", "uncertain"}]

\* withRetry gave up: every attempt threw
GptFailed ==
  [kind |-> "failed", k12Classification |-> "missing", confidence |-> "missing"]

\* chat.completions.create of searchLegalCode / searchNCICCode
WebResponses ==
  {"error", "empty", "badjson", "json-found", "json-notfound", "json-nofield"}

maxRetries == 3

(***************************************************************************)
(* The oracle adapters                                                     *)
(***************************************************************************)
\* gemini.ts queryOffenseCode: the RAGQueryResult for a response
queryOffenseCode(code, resp) ==
  IF resp = "error"
    THEN [code |-> code, found |-> FALSE, statuteText |-> "undefined",
          description |-> "Unable to retrieve information for this code."]
  ELSE IF resp = "json-found"
    THEN [code |-> code, found |-> TRUE, statuteText |-> "statute text",
          description |-> "parsed description"]
  ELSE IF resp = "json-notfound"
    THEN [code |-> code, found |-> FALSE, statuteText |-> "undefined",
          description |-> "parsed description"]
  ELSE IF resp = "json-nofield"
    \* parsed.found ?? true
    THEN [code |-> code, found |-> TRUE, statuteText |-> "undefined",
          description |-> "parsed description"]
  \* no JSON object in the text, or JSON.parse threw: the raw response
  ELSE [code |-> code, found |-> TRUE, statuteText |-> "undefined",
        description |-> "raw response text"]

\* gemini.ts queryK12DisqualificationRules
queryK12DisqualificationRules(code, resp) ==
  IF resp = "error"
    THEN "Unable to determine K-12 disqualification status."
    ELSE "rules text"

\* rag.ts enrichOffenseCode (with buildAIContext)
enrichOffenseCode(code, ragResp, k12Resp) ==
  LET ragResult == queryOffenseCode(code, ragResp)
      k12Rules == queryK12DisqualificationRules(code, k12Resp)
  IN  [code |-> code, ragResult |-> ragResult, k12Rules |-> k12Rules,
       contextForAI |-> <<code, ragResult.found, ragResult.statuteText, k12Rules>>]

\* offense descriptions, as strings of characters
\* 'Unknown offense'
UnknownOffense ==
  <<"U", "n", "k", "n", "o", "w", "n", " ", "o", "f", "f", "e", "n", "s",
    "e">>

\* `Offense code ${code} - requires legal verification`
requiresVerification(code) ==
  <<"O", "f", "f", "e", "n", "s", "e", " ", "c", "o", "d", "e", " ">> \o code
  \o <<" ", "-", " ", "r", "e", "q", "u", "i", "r", "e", "s", " ", "l", "e", "g",
       "a", "l", " ", "v", "e", "r", "i", "f", "i", "c", "a", "t", "i", "o", "n">>

\* a fallback record that clears the code
optimisticFallback(code) ==
  [code |-> code,
   offenseDescription |-> requiresVerification(code),
   k12Classification |-> "non-disqualifying",
   hrGuidance |-> "",
   exemptionPathways |-> <<>>,
   confidence |-> "high"]

\* the record of the catch block of analyzeOffenseCode
conservativeFallback(code) ==
  [code |-> code,
   offenseDescription |-> requiresVerification(code),
   k12Classification |-> "has-exemption-path",
   hrGuidance |-> "Consult with legal counsel",
   exemptionPathways |-> <<"Certificate of Rehabilitation",
                           "Consult legal counsel for verification">>,
   confidence |-> "low"]

\* openai.ts analyzeOffenseCode once getClient succeeded: resp is GptFailed
\* (withRetry rethrew) or the response of the attempt that succeeded
analyzeOffenseCode(code, resp) ==
  IF resp.kind \in {"failed", "empty", "badjson"}
    THEN conservativeFallback(code)
    ELSE [code |-> code,
          \* parsed.offenseDescription || 'Unknown offense'
          offenseDescription |->
            IF "offenseDescription" \in DOMAIN resp
              THEN resp.offenseDescription ELSE UnknownOffense,
          k12Classification |->
            IF resp.k12Classification \in {"review-required", "missing"}
              THEN "has-exemption-path" ELSE resp.k12Classification,
          hrGuidance |-> "oracle guidance",
          exemptionPathways |-> <<>>,
          confidence |->
            IF resp.confidence = "missing" THEN "medium" ELSE resp.confidence]

\* webSearch.ts searchLegalCode / searchNCICCode once getClient succeeded:
\* the `found` of the WebSearchResult
searchFound(resp) == resp = "json-found"

\* webSearch.ts searchCode with webSearchToVerifiedResult
searchCode(code, resp) ==
  [code |-> code,
   found |-> searchFound(resp),
   source |-> "web-search",
   confidence |-> IF searchFound(resp) THEN "medium" ELSE "low",
   verified |-> TRUE,
   statuteText |-> "undefined"]

(***************************************************************************)
(* verifyCode: the tests and the results of its five steps                 *)
(***************************************************************************)
NoResult ==
  [code |-> <<>>, found |-> FALSE, source |-> "none", confidence |-> "none",
   verified |-> FALSE, statuteText |-> "undefined"]

\* localResult.verified && localResult.confidence === 'high': a field the
\* record does not have reads as undefined
stage1Accepts(localResult) ==
  /\ "verified" \in DOMAIN localResult
  /\ localResult.verified = TRUE
  /\ "confidence" \in DOMAIN localResult
  /\ localResult.confidence = "high"

\* geminiInfo && geminiInfo.ragResult.found
stage2Accepts(geminiInfo) == geminiInfo.ragResult.found

\* gptAnalysis && gptAnalysis.confidence !== 'low'
stage3Accepts(gptAnalysis) == gptAnalysis.confidence # "low"

\* webResult.found
stage4Accepts(webResult) == webResult.found

localVerified(code, localResult) ==
  [code |-> code, found |-> TRUE, source |-> "local", confidence |-> "high",
   verified |-> TRUE, statuteText |-> "undefined"]

geminiVerified(code, geminiInfo) ==
  [code |-> code, found |-> TRUE, source |-> "gemini-rag",
   confidence |-> "high", verified |-> TRUE,
   statuteText |-> geminiInfo.ragResult.statuteText]

gptVerified(code, gptAnalysis) ==
  [code |-> code, found |-> TRUE, source |-> "gpt-5.2",
   confidence |-> gptAnalysis.confidence, verified |-> TRUE,
   statuteText |-> "undefined"]

allSourcesExhausted(code) ==
  [code |-> code, found |-> FALSE, source |-> "all-sources-exhausted",
   confidence |-> "high", verified |-> TRUE, statuteText |-> "undefined"]

\* a catch block that rethrows what it caught
rethrow == "throw"

\* what the catch blocks of steps 3 and 4 do with a rejection of the awaited
\* call: "continue" (log and fall through to the next step) or "throw"
catchGpt == "continue"

catchWeb == "continue"

AllSources == <<"local", "gemini-rag", "gpt-5.2", "web-search">>

NothingSeen ==
  [rag |-> "none", ragFound |-> "none", gpt |-> "none", gptConfidence |-> "none",
   web |-> "none", webFound |-> "none"]

YesNo(b) == IF b THEN "yes" ELSE "no"

(***************************************************************************)
(* verifyCode, one step per await.  Calling analyzeOffenseCodes or         *)
(* searchCode without an API key rejects at once (getClient throws before  *)
(* any request), so those steps pass without an await.                     *)
(***************************************************************************)
\* step 4 entered with no client: searchCode rejects, the catch decides
EnterWebNoClient(seen, consulted) ==
  /\ vSeen' = [seen EXCEPT !.web = "client-error"]
  /\ vConsulted' = Append(consulted, "web-search")
  /\ vAttempt' = 0
  /\ IF catchWeb = "continue"
       THEN vPc' = "done" /\ vResult' = allSourcesExhausted(vCode)
       ELSE vPc' = "thrown" /\ vResult' = NoResult

\* step 4 entered: the request of searchCode is sent
EnterWeb(seen, consulted) ==
  IF openaiKeySet
    THEN /\ vSeen' = seen
         /\ vConsulted' = Append(consulted, "web-search")
         /\ vAttempt' = 0
         /\ vPc' = "web"
         /\ vResult' = NoResult
    ELSE EnterWebNoClient(seen, consulted)

\* going from step 2 straight to step 4
skipGpt(seen, consulted) == EnterWeb(seen, consulted)

\* step 3 entered: the first request of analyzeOffenseCode is sent, or
\* getClient throws and the catch of step 3 decides
EnterGpt(seen, consulted) ==
  IF openaiKeySet
    THEN /\ vSeen' = seen
         /\ vConsulted' = Append(consulted, "gpt-5.2")
         /\ vAttempt' = 0
         /\ vPc' = "gpt"
         /\ vResult' = NoResult
    ELSE IF catchGpt = "continue"
      THEN EnterWebNoClient([seen EXCEPT !.gpt = "client-error"],
                            Append(consulted, "gpt-5.2"))
      ELSE /\ vSeen' = [seen EXCEPT !.gpt = "client-error"]
           /\ vConsulted' = Append(consulted, "gpt-5.2")
           /\ vAttempt' = 0
           /\ vPc' = "thrown"
           /\ vResult' = NoResult

\* verifyCode(code) up to its first await: step 1
VerifyStart(code) ==
  /\ vPc \in {"idle", "done"}
  /\ vCalls < MaxCalls
  /\ vCalls' = vCalls + 1
  /\ vCode' = code
  /\ penalCodes' = lookupCodeTable(code, penalCodes)
  /\ vAttempt' = 0
  /\ vSeen' = NothingSeen
  /\ \E localResult \in {lookupCode(code, penalCodes)} :
       /\ vLocal' = localResult
       /\ IF stage1Accepts(localResult)
            THEN /\ vPc' = "done"
                 /\ vConsulted' = <<"local">>
                 /\ vResult' = localVerified(code, localResult)
            ELSE /\ vPc' = "rag"
                 /\ vConsulted' = <<"local", "gemini-rag">>
                 /\ vResult' = NoResult
  /\ UNCHANGED <<pureVars, openaiKeySet, batchVars>>

\* enrichOffenseCodes([code]) resolved: step 2
RagReturns(ragResp, k12Resp) ==
  /\ vPc = "rag"
  /\ LET geminiInfo == enrichOffenseCode(vCode, ragResp, k12Resp)
         seen == [vSeen EXCEPT !.rag = ragResp,
                               !.ragFound = YesNo(geminiInfo.ragResult.found)]
     IN  IF stage2Accepts(geminiInfo)
           THEN /\ vPc' = "done"
                /\ vResult' = geminiVerified(vCode, geminiInfo)
                /\ vSeen' = seen
                /\ UNCHANGED <<vConsulted, vAttempt>>
           ELSE EnterGpt(seen, vConsulted)
  /\ UNCHANGED <<pureVars, penalCodes, openaiKeySet, vCode, vLocal, vCalls, batchVars>>

\* analyzeOffenseCodes([code]) resolved with gptAnalysis: the rest of step 3
GptResolved(gptAnalysis, kind) ==
  LET seen == [vSeen EXCEPT !.gpt = kind,
                            !.gptConfidence = gptAnalysis.confidence]
  IN  IF stage3Accepts(gptAnalysis)
        THEN /\ vPc' = "done"
             /\ vResult' = gptVerified(vCode, gptAnalysis)
             /\ vSeen' = seen
             /\ UNCHANGED <<vConsulted, vAttempt>>
        ELSE EnterWeb(seen, vConsulted)

\* an attempt of withRetry throws: the next attempt follows (after the
\* backoff delay), or withRetry rethrows and analyzeOffenseCode falls back
GptAttemptFails ==
  /\ vPc = "gpt"
  /\ IF vAttempt + 1 < maxRetries
       THEN /\ vAttempt' = vAttempt + 1
            /\ UNCHANGED <<vPc, vConsulted, vSeen, vResult>>
       ELSE GptResolved(analyzeOffenseCode(vCode, GptFailed), "failed")
  /\ UNCHANGED <<pureVars, penalCodes, openaiKeySet, vCode, vLocal, vCalls, batchVars>>

\* an attempt of withRetry returns a response
GptReturns(resp) ==
  /\ vPc = "gpt"
  /\ GptResolved(analyzeOffenseCode(vCode, resp), resp.kind)
  /\ UNCHANGED <<pureVars, penalCodes, openaiKeySet, vCode, vLocal, vCalls, batchVars>>

\* searchCode(code) resolved: steps 4 and 5
WebReturns(resp) ==
  /\ vPc = "web"
  /\ LET webResult == searchCode(vCode, resp)
     IN  /\ vSeen' = [vSeen EXCEPT !.web = resp,
                                   !.webFound = YesNo(webResult.found)]
         /\ vResult' = IF stage4Accepts(webResult) THEN webResult
                       ELSE allSourcesExhausted(vCode)
  /\ vPc' = "done"
  /\ UNCHANGED <<pureVars, penalCodes, openaiKeySet, vCode, vLocal, vConsulted,
                 vAttempt, vCalls, batchVars>>

(***************************************************************************)
(* verifyCode as a function of what the oracles answer: gptResp is         *)
(* GptFailed or the response of the attempt that succeeded.                *)
(***************************************************************************)
verifyCodeResult(code, localResult, keySet, ragResp, k12Resp, gptResp, webResp) ==
  LET geminiInfo == enrichOffenseCode(code, ragResp, k12Resp)
      gptAnalysis == analyzeOffenseCode(code, gptResp)
      webResult == searchCode(code, webResp)
  IN  IF stage1Accepts(localResult) THEN localVerified(code, localResult)
      ELSE IF stage2Accepts(geminiInfo) THEN geminiVerified(code, geminiInfo)
      ELSE IF keySet /\ stage3Accepts(gptAnalysis)
        THEN gptVerified(code, gptAnalysis)
      ELSE IF keySet /\ stage4Accepts(webResult) THEN webResult
      ELSE allSourcesExhausted(code)

\* whether a request of that verifyCode call got a response from its oracle
verifyCodeAnswered(localResult, keySet, ragResp, k12Resp, gptResp, webResp) ==
  /\ ~stage1Accepts(localResult)
  /\ \/ ragResp # "error"
     \/ k12Resp # "error"
     \/ /\ keySet
        /\ ~stage2Accepts(enrichOffenseCode(<<>>, ragResp, k12Resp))
        /\ \/ gptResp.kind # "failed"
           \/ /\ ~stage3Accepts(analyzeOffenseCode(<<>>, gptResp))
              /\ webResp # "error"

(***************************************************************************)
(* performComprehensiveAnalysis: helpers                                   *)
(***************************************************************************)
Pending == [pending |-> TRUE]

NoAnalysis == [none |-> TRUE]

\* a join that returns with the first promise resolved
firstWins(runs) == \E i \in DOMAIN runs : runs[i] # Pending

\* await Promise.all(...) returns once every promise of the list has resolved
settled(runs) == \A i \in DOMAIN runs : runs[i] # Pending

\* a join that files values in the order they arrive
arrivalOrder(runs, i, value) ==
  [runs EXCEPT ![CHOOSE k \in DOMAIN runs :
                   /\ runs[k] = Pending
                   /\ \A j \in DOMAIN runs : runs[j] = Pending => k <= j] = value]

\* Promise.all(codes.map(...)): the value of the promise of position i is the
\* element i of the result, whenever it resolves
promiseAll(runs, i, value) == [runs EXCEPT ![i] = value]

\* history: a run of position i resolves while an earlier position's is pending
outOfOrder(runs, i) == \E j \in DOMAIN runs : j < i /\ runs[j] = Pending

\* s.includes(sub)
includes(s, sub) ==
  \E i \in 1..(Len(s) - Len(sub) + 1) : SubSeq(s, i, i + Len(sub) - 1) = sub

detectCodeType(code) ==
  LET upperCode == toUpperCase(code)
  IN  IF includes(upperCode, PC) THEN "PC"
      ELSE IF includes(upperCode, HS) THEN "HS"
      ELSE IF includes(upperCode, VC) THEN "VC"
      ELSE IF includes(upperCode, BP) THEN "BP"
      ELSE IF includes(upperCode, WI) THEN "WI"
      ELSE IF includes(upperCode, FC) THEN "FC"
      ELSE IF isFourDigits(trim(code)) THEN "NCIC"
      ELSE "unknown"

\* new Map filled by set(run.code, run) in position order, then get(code):
\* the run of the last position holding that code
mapGet(runs, code) ==
  LET hits == {i \in DOMAIN runs : runs[i] # Pending /\ runs[i].code = code}
  IN  IF hits = {} THEN Pending
      ELSE runs[CHOOSE i \in hits : \A j \in hits : j <= i]

\* a || b on optional texts
orElse(a, b) == IF a # "undefined" THEN a ELSE b

\* step 3: the OffenseCodeInfo of position index
offenseInfo(codes, index, enrichRuns, aiAnalysis, verifyRuns) ==
  LET code == codes[index]
      enriched == mapGet(enrichRuns, code)
      a == aiAnalysis[index]
      verification == mapGet(verifyRuns, code)
  IN  [code |-> code,
       codeType |-> detectCodeType(code),
       description |-> a.offenseDescription,
       category |-> a.k12Classification,
       statuteText |->
         orElse(IF enriched = Pending THEN "undefined"
                ELSE enriched.ragResult.statuteText,
                IF verification = Pending THEN "undefined"
                ELSE verification.statuteText),
       k12Impact |-> a.hrGuidance,
       verificationSource |->
         IF verification = Pending THEN "undefined" ELSE verification.source,
       verificationConfidence |->
         IF verification = Pending THEN "undefined" ELSE verification.confidence,
       verified |->
         IF verification = Pending THEN FALSE ELSE verification.verified]

\* a summary whose recommendation looks at the exemption count first
exemptionFirst(codes, analyses) ==
  LET count(c) ==
        Cardinality({i \in DOMAIN analyses :
                       analyses[i].k12Classification = c})
  IN  [totalCodes |-> Len(codes),
       mandatoryDisqualifiers |-> count("mandatory-disqualifier"),
       hasExemptionPath |-> count("has-exemption-path"),
       nonDisqualifying |-> count("non-disqualifying"),
       overallRecommendation |->
         IF count("has-exemption-path") > 0 THEN "exemption template"
         ELSE IF count("mandatory-disqualifier") > 0 THEN "disqualifier template"
         ELSE "all-clear template"]

\* step 4: generateSummary
generateSummary(codes, analyses) ==
  LET classOf(i) ==
        IF analyses[i].k12Classification = "review-required"
          THEN "has-exemption-path" ELSE analyses[i].k12Classification
      count(c) == Cardinality({i \in DOMAIN analyses : classOf(i) = c})
  IN  [totalCodes |-> Len(codes),
       mandatoryDisqualifiers |-> count("mandatory-disqualifier"),
       hasExemptionPath |-> count("has-exemption-path"),
       nonDisqualifying |-> count("non-disqualifying"),
       overallRecommendation |->
         IF count("mandatory-disqualifier") > 0 THEN "disqualifier template"
         ELSE IF count("has-exemption-path") > 0 THEN "exemption template"
         ELSE "all-clear template"]

\* the ComprehensiveAnalysis returned
comprehensiveAnalysis(codes, enrichRuns, aiAnalysis, verifyRuns) ==
  [codes |-> [i \in DOMAIN codes |->
                offenseInfo(codes, i, enrichRuns, aiAnalysis, verifyRuns)],
   aiAnalysis |-> aiAnalysis,
   summary |-> generateSummary(codes, aiAnalysis)]

\* the penal-code table after lookupCode of the first k codes, in order
RECURSIVE tableAfter(_, _, _)
tableAfter(codes, k, penal) ==
  IF k = 0 THEN penal
  ELSE lookupCodeTable(codes[k], tableAfter(codes, k - 1, penal))

\* verifyCode(codes[i]) up to its first await, inside codes.map of verifyCodes
verifyCodeStarted(codes, i, penal) ==
  LET step1(localResult) ==
        IF stage1Accepts(localResult) THEN localVerified(codes[i], localResult)
        ELSE Pending
  IN  step1(lookupCode(codes[i], tableAfter(codes, i - 1, penal)))

\* the code strings of the batches submitted
BatchCodes == {Code211, Code999}

RECURSIVE SeqsUpTo(_, _)
SeqsUpTo(S, n) ==
  IF n = 0 THEN {<<>>}
  ELSE LET shorter == SeqsUpTo(S, n - 1)
       IN  shorter \cup {Append(q, x) : q \in shorter, x \in S}

Batches == SeqsUpTo(BatchCodes, MaxBatch) \ {<<>>}

\* what the oracles answer in a batch
BatchRagResponses == {"error", "json-found"}

\* the two requests of one enrichOffenseCode go to the same service: in a
\* batch both fail or both answer
BatchK12Responses(ragResp) == IF ragResp = "error" THEN {"error"} ELSE {"ok"}

BatchGptResponses ==
  {GptFailed,
   [kind |-> "json", k12Classification |-> "non-disqualifying",
    confidence |-> "medium"]}

BatchWebResponses == {"error", "json-found"}

(***************************************************************************)
(* The Analyze action                                                      *)
(***************************************************************************)
\* handleCodesSubmit(codes) up to its await: the state setters, then
\* performComprehensiveAnalysis up to its first await (verifyCodes launched,
\* enrichOffenseCodes launched)
Submit(codes) ==
  /\ bPc = "none"
  /\ extractedCodes' = [i \in DOMAIN codes |-> [code |-> codes[i], context |-> i]]
  /\ analysisStatus' = "analyzing"
  /\ bCodes' = codes
  /\ verifyRun' = [i \in DOMAIN codes |-> verifyCodeStarted(codes, i, penalCodes)]
  /\ localRun' = [i \in DOMAIN codes |->
                    lookupCode(codes[i], tableAfter(codes, i - 1, penalCodes))]
  /\ penalCodes' = tableAfter(codes, Len(codes), penalCodes)
  /\ enrichRun' = [i \in DOMAIN codes |-> Pending]
  /\ aiRun' = [i \in DOMAIN codes |-> Pending]
  /\ aiFailed' = {}
  /\ arrival' = [swapped |-> FALSE, verifyFirst |-> FALSE]
  /\ bPc' = "enrich"
  /\ UNCHANGED <<pureVars, openaiKeySet, analysis, oracleAnswered, verifyVars>>

\* enrichOffenseCode(codes[i]) of enrichOffenseCodes(codes) resolves
EnrichDone(i, ragResp, k12Resp) ==
  /\ bPc = "enrich"
  /\ i \in DOMAIN bCodes
  /\ enrichRun[i] = Pending
  /\ enrichRun' =
       promiseAll(enrichRun, i, enrichOffenseCode(bCodes[i], ragResp, k12Resp))
  /\ arrival' = [arrival EXCEPT !.swapped = @ \/ outOfOrder(enrichRun, i)]
  /\ oracleAnswered' = (oracleAnswered \/ ragResp # "error" \/ k12Resp # "error")
  /\ UNCHANGED <<pureVars, tableVars, analysisStatus, extractedCodes, analysis, bPc,
                 bCodes, aiRun, verifyRun, localRun, aiFailed, verifyVars>>

\* await enrichOffenseCodes(codes) returns: the context map is built and
\* analyzeOffenseCodes is called; without an API key every analyzeOffenseCode
\* rejects at getClient, and so does performComprehensiveAnalysis
AwaitEnrich ==
  /\ bPc = "enrich"
  /\ settled(enrichRun)
  /\ bPc' = IF openaiKeySet THEN "classify" ELSE "rejected"
  /\ UNCHANGED <<pureVars, tableVars, analysisStatus, extractedCodes, analysis, bCodes,
                 enrichRun, aiRun, verifyRun, localRun, aiFailed, oracleAnswered, arrival,
                 verifyVars>>

\* analyzeOffenseCode(codes[i], context) of analyzeOffenseCodes resolves
ClassifyDone(i, resp) ==
  /\ bPc = "classify"
  /\ i \in DOMAIN bCodes
  /\ aiRun[i] = Pending
  /\ aiRun' = promiseAll(aiRun, i, analyzeOffenseCode(bCodes[i], resp))
  /\ arrival' = [arrival EXCEPT !.swapped = @ \/ outOfOrder(aiRun, i)]
  /\ aiFailed' = IF resp.kind = "failed" THEN aiFailed \cup {i} ELSE aiFailed
  /\ oracleAnswered' = (oracleAnswered \/ resp.kind # "failed")
  /\ UNCHANGED <<pureVars, tableVars, analysisStatus, extractedCodes, analysis, bPc,
                 bCodes, enrichRun, verifyRun, localRun, verifyVars>>

\* await analyzeOffenseCodes(codes, ragContextMap) returns
AwaitClassify ==
  /\ bPc = "classify"
  /\ settled(aiRun)
  /\ bPc' = "verify"
  /\ UNCHANGED <<pureVars, tableVars, analysisStatus, extractedCodes, analysis, bCodes,
                 enrichRun, aiRun, verifyRun, localRun, aiFailed, oracleAnswered, arrival,
                 verifyVars>>

\* verifyCode(codes[i]) of verifyCodes(codes) resolves
VerifyDone(i, ragResp, k12Resp, gptResp, webResp) ==
  /\ bPc \in {"enrich", "classify", "verify"}
  /\ i \in DOMAIN bCodes
  /\ verifyRun[i] = Pending
  /\ verifyRun' =
       promiseAll(verifyRun, i,
                  verifyCodeResult(bCodes[i], localRun[i], openaiKeySet,
                                   ragResp, k12Resp, gptResp, webResp))
  /\ oracleAnswered' =
       (oracleAnswered \/
        verifyCodeAnswered(localRun[i], openaiKeySet,
                           ragResp, k12Resp, gptResp, webResp))
  /\ arrival' = [arrival EXCEPT !.swapped = @ \/ outOfOrder(verifyRun, i),
                                !.verifyFirst = @ \/ enrichRun[i] = Pending]
  /\ UNCHANGED <<pureVars, tableVars, analysisStatus, extractedCodes, analysis, bPc,
                 bCodes, enrichRun, aiRun, localRun, aiFailed, verifyVars>>

\* await verificationPromise returns: the records and the summary are built
\* and performComprehensiveAnalysis resolves
AwaitVerify ==
  /\ bPc = "verify"
  /\ settled(verifyRun)
  /\ bPc' = "resolved"
  /\ UNCHANGED <<pureVars, tableVars, analysisStatus, extractedCodes, analysis, bCodes,
                 enrichRun, aiRun, verifyRun, localRun, aiFailed, oracleAnswered, arrival,
                 verifyVars>>

\* handleCodesSubmit after its await: setAnalysis(result), status complete
AnalysisResolved ==
  /\ bPc = "resolved"
  /\ analysis' = comprehensiveAnalysis(bCodes, enrichRun, aiRun, verifyRun)
  /\ analysisStatus' = "complete"
  /\ bPc' = "finished"
  /\ UNCHANGED <<pureVars, tableVars, extractedCodes, bCodes, enrichRun, aiRun,
                 verifyRun, localRun, aiFailed, oracleAnswered, arrival, verifyVars>>

\* handleCodesSubmit in its catch block: status error
AnalysisRejected ==
  /\ bPc = "rejected"
  /\ analysisStatus' = "error"
  /\ bPc' = "finished"
  /\ UNCHANGED <<pureVars, tableVars, extractedCodes, analysis, bCodes, enrichRun, aiRun,
                 verifyRun, localRun, aiFailed, oracleAnswered, arrival, verifyVars>>

(***************************************************************************)
(* Specifications                                                          *)
(***************************************************************************)
vars == <<tableVars, verifyVars, batchVars, pureVars>>

\* no chat turn has started
ChatIdle ==
  /\ chatPc = "idle"
  /\ chatCall = [entry |-> "none", messages |-> <<>>]
  /\ chatRequests = <<>>
  /\ chatReply = Pending

\* no verifyCode call has started
VerifyIdle ==
  /\ vPc = "idle"
  /\ vCode = <<>>
  /\ vLocal = Pending
  /\ vConsulted = <<>>
  /\ vAttempt = 0
  /\ vSeen = NothingSeen
  /\ vResult = NoResult
  /\ vCalls = 0

\* no batch has been submitted
BatchIdle ==
  /\ analysisStatus = "idle"
  /\ extractedCodes = <<>>
  /\ analysis = NoAnalysis
  /\ bPc = "none"
  /\ bCodes = <<>>
  /\ enrichRun = <<>>
  /\ aiRun = <<>>
  /\ verifyRun = <<>>
  /\ localRun = <<>>
  /\ aiFailed = {}
  /\ oracleAnswered = FALSE
  /\ arrival = [swapped |-> FALSE, verifyFirst |-> FALSE]

Init ==
  /\ penalCodes = penalCodesLoaded
  /\ openaiKeySet \in BOOLEAN
  /\ VerifyIdle
  /\ BatchIdle
  /\ aggInput = <<>>
  /\ aggResult = NoAnalysis
  /\ lookupLog = <<>>
  /\ parseInput = <<>>
  /\ parsedCode = Pending
  /\ ChatIdle
  /\ retry = [pc |-> "idle"]
  /\ chatUi = [messages |-> <<>>, isStreaming |-> FALSE, input |-> <<>>,
               warnings |-> <<>>]
  /\ session = [extractions |-> {}, submissions |-> <<>>,
                cleared |-> FALSE]

\* one Analyze action
Next ==
  \/ \E codes \in Batches : Submit(codes)
  \/ \E i \in 1..MaxBatch, ragResp \in BatchRagResponses :
       \E k12Resp \in BatchK12Responses(ragResp) :
         EnrichDone(i, ragResp, k12Resp)
  \/ AwaitEnrich
  \/ \E i \in 1..MaxBatch, resp \in BatchGptResponses : ClassifyDone(i, resp)
  \/ AwaitClassify
  \/ \E i \in 1..MaxBatch, ragResp \in BatchRagResponses,
        gptResp \in BatchGptResponses, webResp \in BatchWebResponses :
       \E k12Resp \in BatchK12Responses(ragResp) :
         VerifyDone(i, ragResp, k12Resp, gptResp, webResp)
  \/ AwaitVerify
  \/ AnalysisResolved
  \/ AnalysisRejected

Spec == Init /\ [][Next]_vars

\* verifyCode calls, one after the other
NextVerify ==
  \/ \E code \in Codes : VerifyStart(code)
  \/ \E ragResp \in RagResponses, k12Resp \in K12Responses :
       RagReturns(ragResp, k12Resp)
  \/ GptAttemptFails
  \/ \E resp \in GptResponses : GptReturns(resp)
  \/ \E resp \in WebResponses : WebReturns(resp)

SpecVerify == Init /\ [][NextVerify]_vars

(***************************************************************************)
(* Properties of verifyCode (SpecVerify)                                   *)
(***************************************************************************)
\* C1: in one verifyCode call the sources are consulted in the order local,
\* gemini-rag, gpt-5.2, web-search, each at most once (the list consulted is
\* a prefix of that order); a source is consulted only after every earlier
\* one did not produce an accepted result; and the source returned is the
\* first one that accepted, all-sources-exhausted when none did.
C1_OrderedFallback ==
  /\ Len(vConsulted) <= Len(AllSources)
  /\ vConsulted = SubSeq(AllSources, 1, Len(vConsulted))
  /\ (Len(vConsulted) >= 2 => ~stage1Accepts(vLocal))
  /\ (Len(vConsulted) >= 3 => vSeen.ragFound = "no")
  /\ (Len(vConsulted) >= 4 =>
        vSeen.gpt # "none" /\ vSeen.gptConfidence \in {"low", "none"})
  /\ (vPc = "done" =>
        IF stage1Accepts(vLocal)
          THEN vResult.source = "local" /\ Len(vConsulted) = 1
        ELSE IF vSeen.ragFound = "yes"
          THEN vResult.source = "gemini-rag" /\ Len(vConsulted) = 2
        ELSE IF vSeen.gptConfidence \notin {"low", "none"}
          THEN vResult.source = "gpt-5.2" /\ Len(vConsulted) = 3
        ELSE IF vSeen.webFound = "yes"
          THEN vResult.source = "web-search" /\ Len(vConsulted) = 4
        ELSE vResult.source = "all-sources-exhausted" /\ Len(vConsulted) = 4)

\* a call that fell through the first three sources and was settled by the
\* fourth
C1_Witness ==
  /\ vPc = "done"
  /\ vConsulted = AllSources
  /\ vSeen.ragFound = "no"
  /\ vSeen.gptConfidence = "low"
  /\ vResult.source = "web-search"

C3_NeverThrows ==
  /\ vPc # "thrown"
  /\ (vSeen.rag = "error" => Len(vConsulted) >= 3)
  /\ (vSeen.gpt \in {"failed", "client-error"} => Len(vConsulted) = 4)
  /\ (/\ vPc = "done"
      /\ vSeen.rag = "error"
      /\ vSeen.gpt \in {"failed", "client-error"}
      /\ vSeen.web \in {"error", "client-error"}
      => /\ vResult = allSourcesExhausted(vCode)
         /\ vResult.found = FALSE)

\* a call in which the three oracles raised, returned as exhausted
C3_Witness ==
  /\ vPc = "done"
  /\ vSeen.rag = "error"
  /\ vSeen.gpt \in {"failed", "client-error"}
  /\ vSeen.web \in {"error", "client-error"}
  /\ vResult.source = "all-sources-exhausted"

\* C4: a malformed response is handled like an unavailable source: a
\* retrieval response that does not parse, holds no JSON, or lacks the found
\* field never yields source gemini-rag, and a malformed analysis or
\* web-search response never yields gpt-5.2 or web-search.
C4_MalformedIsUnavailable ==
  vPc = "done" =>
    /\ (vSeen.rag \in {"text", "badjson", "json-nofield"} =>
          vResult.source # "gemini-rag")
    /\ (vSeen.gpt \in {"empty", "badjson"} => vResult.source # "gpt-5.2")
    /\ (vSeen.web \in {"empty", "badjson", "json-nofield"} =>
          vResult.source # "web-search")

\* C5: every result of verifyCode has its source, confidence and found from
\* the five combinations: local/high/true, gemini-rag/high/true,
\* gpt-5.2/high or medium/true, web-search/medium/true,
\* all-sources-exhausted/high/false.
C5_ResultCombinations ==
  vPc = "done" =>
    <<vResult.source, vResult.confidence, vResult.found>> \in
      {<<"local", "high", TRUE>>,
       <<"gemini-rag", "high", TRUE>>,
       <<"gpt-5.2", "high", TRUE>>,
       <<"gpt-5.2", "medium", TRUE>>,
       <<"web-search", "medium", TRUE>>,
       <<"all-sources-exhausted", "high", FALSE>>}

(***************************************************************************)
(* Properties of the Analyze action (Spec)                                 *)
(***************************************************************************)
\* C6: the codes and aiAnalysis lists returned by
\* performComprehensiveAnalysis have the length of the input, and at every
\* index the record and the analysis carry the input code of that index,
\* whatever order the per-code operations completed in.
C6_SubmissionOrder ==
  analysis # NoAnalysis =>
    /\ Len(analysis.codes) = Len(bCodes)
    /\ Len(analysis.aiAnalysis) = Len(bCodes)
    /\ \A i \in DOMAIN bCodes :
         /\ analysis.codes[i].code = bCodes[i]
         /\ analysis.aiAnalysis[i].code = bCodes[i]

\* a result for two different codes whose runs resolved out of position order
C6_Witness ==
  /\ analysis # NoAnalysis
  /\ Len(bCodes) = 2
  /\ bCodes[1] # bCodes[2]
  /\ arrival.swapped

\* C7: duplicate code strings are not merged: the verification source,
\* confidence, verified flag and statute text of the record of position i
\* are those of the enrichment and verification runs of position i.
C7_PositionsNotMerged ==
  analysis # NoAnalysis =>
    \A i \in DOMAIN bCodes :
      /\ analysis.codes[i].verificationSource = verifyRun[i].source
      /\ analysis.codes[i].verificationConfidence = verifyRun[i].confidence
      /\ analysis.codes[i].verified = verifyRun[i].verified
      /\ analysis.codes[i].statuteText =
           orElse(enrichRun[i].ragResult.statuteText, verifyRun[i].statuteText)

\* C8: the records are produced only after the enrichment, the
\* classification and the verification of every code have completed; no
\* record lacks the part of one of them.
C8_Barrier ==
  /\ (bPc = "resolved" \/ analysis # NoAnalysis) =>
       \A i \in DOMAIN bCodes :
         /\ enrichRun[i] # Pending
         /\ aiRun[i] # Pending
         /\ verifyRun[i] # Pending
  /\ analysis # NoAnalysis =>
       \A i \in DOMAIN bCodes :
         analysis.codes[i].verificationSource # "undefined"

\* a result whose verification finished before its enrichment did
C8_Witness ==
  /\ analysis # NoAnalysis
  /\ arrival.verifyFirst
  /\ \A i \in DOMAIN bCodes : verifyRun[i] # Pending

\* C9: a classification call that failed after its retries gives the
\* conservative default (has-exemption-path, confidence low, guidance to
\* consult counsel), never non-disqualifying; performComprehensiveAnalysis
\* does not reject because of it; and the records of the other positions are
\* what they would be had that call succeeded.
C9_ConservativeDefault ==
  /\ \A i \in aiFailed :
       /\ aiRun[i].k12Classification = "has-exemption-path"
       /\ aiRun[i].confidence = "low"
       /\ aiRun[i].hrGuidance = "Consult with legal counsel"
  /\ (bPc = "rejected" \/ analysisStatus = "error") => aiFailed = {}
  /\ analysis # NoAnalysis =>
       \A i \in aiFailed :
         /\ analysis.codes[i].category = "has-exemption-path"
         /\ analysis.codes[i].k12Impact = "Consult with legal counsel"
         /\ analysis.aiAnalysis[i].confidence = "low"
         /\ \A j \in DOMAIN bCodes \ {i} :
              \A resp \in BatchGptResponses :
                analysis.codes[j] =
                  offenseInfo(bCodes, j, enrichRun,
                              [aiRun EXCEPT ![i] = analyzeOffenseCode(bCodes[i], resp)],
                              verifyRun)

\* a completed analysis of two codes, the first one's classification failed,
\* the second one classified non-disqualifying
C9_Witness ==
  /\ analysisStatus = "complete"
  /\ aiFailed = {1}
  /\ Len(bCodes) = 2
  /\ analysis.codes[2].category = "non-disqualifying"

\* C10: the Analyze action ends in status error exactly when no oracle call
\* of the batch got an answer: it fails when every oracle call failed, and
\* it does not fail when some call was answered.
C10_FailsOnlyOnOutage ==
  bPc = "finished" => (analysisStatus = "error" <=> ~oracleAnswered)

(***************************************************************************)
(* Aggregation of offense records: generateSummary,                        *)
(* transformToOffenseInfoArray, transformToDisqualificationAnalysis and    *)
(* the two definitions of analyzeOffenses                                  *)
(***************************************************************************)
MaxOffenses == 3

\* the values of DisqualificationStatus
Classifications ==
  {"mandatory-disqualifier", "has-exemption-path", "non-disqualifying",
   "review-required", "unknown"}

toLowerCase(s) ==
  [i \in DOMAIN s |->
     IF s[i] \in Uppers
       THEN LowerSeq[CHOOSE k \in DOMAIN UpperSeq : UpperSeq[k] = s[i]]
       ELSE s[i]]

\* the code of position i of a batch: "211 PC", "484 PC", "23152 VC", and
\* these again
AggregateCodes(i) ==
  <<Code211, Code484, <<"2", "3", "1", "5", "2", " ", "V", "C">> >>[((i - 1) % 3) + 1]

\* what the classification oracle answered for one code: its k12Classification
\* and offenseDescription fields
OffenseAnswers ==
  [k12Classification : Classifications,
   offenseDescription : {<<"M", "u", "r", "d", "e", "r">>,
                         <<"P", "e", "t", "t", "y", " ", "t", "h", "e", "f", "t">>}]

\* the ComprehensiveAnalysis of a batch whose classification oracle gave these
\* answers, by position, while the retrieval and search oracles failed
answeredAnalysis(answers) ==
  LET codes == [i \in DOMAIN answers |-> AggregateCodes(i)]
      built(aiAnalysis) ==
        comprehensiveAnalysis(
          codes,
          [i \in DOMAIN codes |-> enrichOffenseCode(codes[i], "error", "error")],
          aiAnalysis,
          [i \in DOMAIN codes |-> allSourcesExhausted(codes[i])])
  IN  built([i \in DOMAIN answers |->
               analyzeOffenseCode(
                 AggregateCodes(i),
                 [kind |-> "json",
                  k12Classification |-> answers[i].k12Classification,
                  offenseDescription |-> answers[i].offenseDescription,
                  confidence |-> "high"])])

\* App.tsx transformToOffenseInfoArray
transformToOffenseInfoArray(shown) ==
  LET record(code, aiResult, category, isViolent) ==
        [code |-> code.code,
         statute |-> code.codeType,
         description |-> code.description,
         category |->
           IF code.codeType = "PC" THEN "Penal Code"
           ELSE IF code.codeType = "HS" THEN "Health & Safety"
           ELSE IF code.codeType = "VC" THEN "Vehicle Code"
           ELSE "Other",
         k12Impact |-> category,
         note |-> aiResult.hrGuidance,
         isViolentFelony |-> isViolent,
         isSeriousFelony |->
           category \in {"mandatory-disqualifier", "has-exemption-path"},
         exemptionAvailable |->
           \/ category = "has-exemption-path"
           \/ Len(aiResult.exemptionPathways) > 0,
         source |-> orElse(code.verificationSource, "local"),
         confidence |-> orElse(code.verificationConfidence, "high"),
         verified |-> code.verified]
      flagged(code, aiResult, category, lowered) ==
        record(code, aiResult, category,
               /\ category = "mandatory-disqualifier"
               /\ \/ includes(lowered, <<"v", "i", "o", "l", "e", "n", "t">>)
                  \/ includes(lowered, <<"m", "u", "r", "d", "e", "r">>)
                  \/ includes(lowered, <<"r", "a", "p", "e">>))
  IN  [i \in DOMAIN shown.codes |->
         flagged(shown.codes[i], shown.aiAnalysis[i],
                 orElse(shown.aiAnalysis[i].k12Classification,
                        shown.codes[i].category),
                 toLowerCase(shown.codes[i].description))]

\* k12Impact with review-required and unknown mapped to has-exemption-path
normalizedImpact(k12Impact) ==
  IF k12Impact \in {"review-required", "unknown"}
    THEN "has-exemption-path" ELSE k12Impact

\* offenses.filter(o => o.k12Impact === status), as the positions kept
filterImpact(impacts, status) == {i \in DOMAIN impacts : impacts[i] = status}

\* the overall status both normalizing functions compute from their filters
overallOf(mandatory, exemption) ==
  IF mandatory # {} THEN "mandatory-disqualifier"
  ELSE IF exemption # {} THEN "has-exemption-path"
  ELSE "non-disqualifying"

\* App.tsx transformToDisqualificationAnalysis
transformToDisqualificationAnalysis(shown) ==
  LET result(mandatory, exemption, nonDisq) ==
        [overallStatus |-> overallOf(mandatory, exemption),
         mandatoryDisqualifiers |-> mandatory,
         hasExemptionPath |-> exemption,
         nonDisqualifying |-> nonDisq,
         recommendations |-> <<shown.summary.overallRecommendation>>]
      filtered(impacts) ==
        result(filterImpact(impacts, "mandatory-disqualifier"),
               filterImpact(impacts, "has-exemption-path"),
               filterImpact(impacts, "non-disqualifying"))
      normalized(offenses) ==
        filtered([i \in DOMAIN offenses |-> normalizedImpact(offenses[i].k12Impact)])
  IN  normalized(transformToOffenseInfoArray(shown))

\* the strings one recommendation group pushes: n lines of one template
pushed(template, n) == [line \in 1..n |-> [template |-> template, line |-> line]]

\* disqualificationCheck.ts analyzeOffenses, the later definition (line 397);
\* impacts are the k12Impact fields of its argument
analyzeOffenses(impacts) ==
  LET result(mandatory, exemption, nonDisq) ==
        [overallStatus |-> overallOf(mandatory, exemption),
         mandatoryDisqualifiers |-> mandatory,
         hasExemptionPath |-> exemption,
         nonDisqualifying |-> nonDisq,
         recommendations |->
           (IF mandatory # {} THEN pushed("disqualifier", 3) ELSE <<>>)
           \o (IF exemption # {} /\ mandatory = {}
                 THEN pushed("exemption", 3) ELSE <<>>)
           \o (IF nonDisq # {} /\ mandatory = {} /\ exemption = {}
                 THEN pushed("all-clear", 2) ELSE <<>>)
           \o (IF impacts = <<>> THEN pushed("no-offenses", 1) ELSE <<>>)]
      filtered(normalized) ==
        result(filterImpact(normalized, "mandatory-disqualifier"),
               filterImpact(normalized, "has-exemption-path"),
               filterImpact(normalized, "non-disqualifying"))
  IN  filtered([i \in DOMAIN impacts |-> normalizedImpact(impacts[i])])

\* disqualificationCheck.ts analyzeOffenses, the earlier definition (line 128)
analyzeOffensesEarlier(impacts) ==
  LET result(mandatory, exemption, review, nonDisq, unknown) ==
        [overallStatus |->
           IF mandatory # {} THEN "mandatory-disqualifier"
           ELSE IF exemption # {} THEN "has-exemption-path"
           ELSE IF review # {} THEN "review-required"
           ELSE IF unknown # {} THEN "unknown"
           ELSE "non-disqualifying",
         mandatoryDisqualifiers |-> mandatory,
         hasExemptionPath |-> exemption,
         reviewRequired |-> review,
         nonDisqualifying |-> nonDisq,
         unknown |-> unknown,
         recommendations |->
           (IF mandatory # {} THEN pushed("disqualifier", 3) ELSE <<>>)
           \o (IF exemption # {} /\ mandatory = {}
                 THEN pushed("exemption", 3) ELSE <<>>)
           \o (IF review # {} THEN pushed("review", 2) ELSE <<>>)
           \o (IF nonDisq # {} /\ mandatory = {} /\ exemption = {}
                 THEN pushed("all-clear", 2) ELSE <<>>)
           \o (IF impacts = <<>> THEN pushed("no-offenses", 1) ELSE <<>>)]
  IN  result(filterImpact(impacts, "mandatory-disqualifier"),
             filterImpact(impacts, "has-exemption-path"),
             filterImpact(impacts, "review-required"),
             filterImpact(impacts, "non-disqualifying"),
             filterImpact(impacts, "unknown"))

\* the k12Impact fields of the records handed to analyzeOffenses
impactsOf(answers) == [i \in DOMAIN answers |-> answers[i].k12Classification]

(***************************************************************************)
(* One call of each aggregation function on the same records               *)
(***************************************************************************)
\* performComprehensiveAnalysis, steps 3 and 4, on the oracle's answers
Summarize ==
  /\ aggResult = NoAnalysis
  /\ \E built \in {answeredAnalysis(aggInput)} :
       aggResult' = [fn |-> "generateSummary", analysis |-> built,
                     result |-> built.summary]
  /\ UNCHANGED <<aggInput, lookupLog, parseInput, parsedCode, chatVars,
                 tableVars, verifyVars, batchVars, retry, chatUi, session>>

\* the report view: both transforms of the analysis
Transform ==
  /\ aggResult = NoAnalysis
  /\ \E built \in {answeredAnalysis(aggInput)} :
       aggResult' = [fn |-> "transformToDisqualificationAnalysis",
                     analysis |-> built,
                     offenses |-> transformToOffenseInfoArray(built),
                     result |-> transformToDisqualificationAnalysis(built)]
  /\ UNCHANGED <<aggInput, lookupLog, parseInput, parsedCode, chatVars,
                 tableVars, verifyVars, batchVars, retry, chatUi, session>>

AnalyzeOffenses ==
  /\ aggResult = NoAnalysis
  /\ aggResult' = [fn |-> "analyzeOffenses",
                   result |-> analyzeOffenses(impactsOf(aggInput))]
  /\ UNCHANGED <<aggInput, lookupLog, parseInput, parsedCode, chatVars,
                 tableVars, verifyVars, batchVars, retry, chatUi, session>>

AnalyzeOffensesEarlier ==
  /\ aggResult = NoAnalysis
  /\ aggResult' = [fn |-> "analyzeOffensesEarlier",
                   result |-> analyzeOffensesEarlier(impactsOf(aggInput))]
  /\ UNCHANGED <<aggInput, lookupLog, parseInput, parsedCode, chatVars,
                 tableVars, verifyVars, batchVars, retry, chatUi, session>>

InitAggregate ==
  /\ penalCodes = penalCodesLoaded
  /\ openaiKeySet = TRUE
  /\ VerifyIdle
  /\ BatchIdle
  /\ aggInput \in SeqsUpTo(OffenseAnswers, MaxOffenses)
  /\ aggResult = NoAnalysis
  /\ lookupLog = <<>>
  /\ parseInput = <<>>
  /\ parsedCode = Pending
  /\ ChatIdle
  /\ retry = [pc |-> "idle"]
  /\ chatUi = [messages |-> <<>>, isStreaming |-> FALSE, input |-> <<>>,
               warnings |-> <<>>]
  /\ session = [extractions |-> {}, submissions |-> <<>>,
                cleared |-> FALSE]

SpecAggregate ==
  InitAggregate
  /\ [][\/ Summarize
        \/ Transform
        \/ AnalyzeOffenses
        \/ AnalyzeOffensesEarlier]_vars

(***************************************************************************)
(* lookupCode calls on the loaded tables                                   *)
(***************************************************************************)
MaxLookups == 2

\* contents penalCodes.codes may be loaded with: the entries above, or those
\* and a section the table itself marks mandatory that is in no felony list
PenalTables ==
  {penalCodesLoaded,
   penalCodesLoaded
     @@ (<<"3", "1", "4">> :> [description |-> "Indecent exposure",
                               category |-> "Sex Offense",
                               k12Impact |-> "mandatory-disqualifier",
                               hasCitations |-> FALSE, citations |-> <<>>,
                               note |-> "undefined"])}

\* the strings looked up: "211 PC", "484 PC", "999 PC", "1301", "459 PC",
\* "187 PC", "245 PC", "314 PC", "1301 PC"
LookupInputs ==
  {Code211, Code484, Code999, Code1301,
   <<"4", "5", "9", " ", "P", "C">>, <<"1", "8", "7", " ", "P", "C">>,
   <<"2", "4", "5", " ", "P", "C">>, <<"3", "1", "4", " ", "P", "C">>,
   <<"1", "3", "0", "1", " ", "P", "C">>}

\* one lookupCode(input) call: its record, and its write to the table
Lookup(input) ==
  /\ Len(lookupLog) < MaxLookups
  /\ \E result \in {lookupCode(input, penalCodes)} :
       lookupLog' = Append(lookupLog, [input |-> input, result |-> result])
  /\ penalCodes' = lookupCodeTable(input, penalCodes)
  /\ UNCHANGED <<openaiKeySet, aggInput, aggResult, parseInput, parsedCode,
                 chatVars, verifyVars, batchVars, retry, chatUi, session>>

InitLookup ==
  /\ penalCodes \in PenalTables
  /\ openaiKeySet = TRUE
  /\ VerifyIdle
  /\ BatchIdle
  /\ aggInput = <<>>
  /\ aggResult = NoAnalysis
  /\ lookupLog = <<>>
  /\ parseInput = <<>>
  /\ parsedCode = Pending
  /\ ChatIdle
  /\ retry = [pc |-> "idle"]
  /\ chatUi = [messages |-> <<>>, isStreaming |-> FALSE, input |-> <<>>,
               warnings |-> <<>>]
  /\ session = [extractions |-> {}, submissions |-> <<>>,
                cleared |-> FALSE]

SpecLookup == InitLookup /\ [][\E input \in LookupInputs : Lookup(input)]_vars

(***************************************************************************)
(* One parseCodeString call on a drawn string                              *)
(***************************************************************************)
\* code numbers: "211", "1301", "667.5(c)"
ParseNumbers ==
  {<<"2", "1", "1">>, <<"1", "3", "0", "1">>,
   <<"6", "6", "7", ".", "5", "(", "c", ")">>}

\* the six statute tokens, upper case
StatuteTokens == {PC, HS, VC, BP, WI, FC}

\* words written before or after a number: the tokens in upper, lower and
\* mixed case, and a word that is no token
ParseWords ==
  StatuteTokens \cup {toLowerCase(t) : t \in StatuteTokens}
  \cup {<<"P", "c">>, <<"X", "X">>}

\* `${prefix} ${number} ${suffix}`, an absent word leaving no space
written(prefix, number, suffix) ==
  (IF prefix = <<>> THEN <<>> ELSE prefix \o <<" ">>)
  \o number
  \o (IF suffix = <<>> THEN <<>> ELSE <<" ">> \o suffix)

\* the strings parsed: a number with a word, or none, on either side; and
\* "", "PC", "abc 12x", " 211 ", "211  PC", "12 34"
ParseInputs ==
  {written(prefix, number, suffix) :
     prefix \in ParseWords \cup {<<>>}, number \in ParseNumbers,
     suffix \in ParseWords \cup {<<>>}}
  \cup {<<>>, PC, <<"a", "b", "c", " ", "1", "2", "x">>,
        <<" ", "2", "1", "1", " ">>, <<"2", "1", "1", " ", " ", "P", "C">>,
        <<"1", "2", " ", "3", "4">>}

Parse ==
  /\ parsedCode = Pending
  /\ \E result \in {parseCodeString(parseInput)} : parsedCode' = result
  /\ UNCHANGED <<parseInput, aggInput, aggResult, lookupLog, chatVars,
                 tableVars, verifyVars, batchVars, retry, chatUi, session>>

InitParse ==
  /\ penalCodes = penalCodesLoaded
  /\ openaiKeySet = TRUE
  /\ VerifyIdle
  /\ BatchIdle
  /\ aggInput = <<>>
  /\ aggResult = NoAnalysis
  /\ lookupLog = <<>>
  /\ parseInput \in ParseInputs
  /\ parsedCode = Pending
  /\ ChatIdle
  /\ retry = [pc |-> "idle"]
  /\ chatUi = [messages |-> <<>>, isStreaming |-> FALSE, input |-> <<>>,
               warnings |-> <<>>]
  /\ session = [extractions |-> {}, submissions |-> <<>>,
                cleared |-> FALSE]

SpecParse == InitParse /\ [][Parse]_vars

(***************************************************************************)
(* The chat entry points chatAboutAnalysis and streamChatResponse, called  *)
(* from the report of a completed analysis (the client exists by then)     *)
(***************************************************************************)
MaxMessages == 2

OFF_TOPIC_KEYWORDS ==
  {<<"w", "e", "a", "t", "h", "e", "r">>,
   <<"s", "p", "o", "r", "t", "s">>,
   <<"r", "e", "c", "i", "p", "e">>,
   <<"j", "o", "k", "e">>,
   <<"s", "t", "o", "r", "y">>,
   <<"m", "o", "v", "i", "e">>,
   <<"m", "u", "s", "i", "c">>,
   <<"p", "o", "l", "i", "t", "i", "c", "s">>,
   <<"n", "e", "w", "s">>,
   <<"s", "t", "o", "c", "k">>,
   <<"c", "r", "y", "p", "t", "o">>,
   <<"g", "a", "m", "e">>,
   <<"d", "a", "t", "i", "n", "g">>,
   <<"r", "e", "l", "a", "t", "i", "o", "n", "s", "h", "i", "p">>}

isOffTopic(input) ==
  LET anyKeyword(lowerInput) ==
        \E keyword \in OFF_TOPIC_KEYWORDS : includes(lowerInput, keyword)
  IN  anyKeyword(toLowerCase(input))

\* PII_PATTERNS[pattern - 1] tried at position j of input: the length of the
\* match, or 0; the only white space of \s written here is the space.  Each
\* pattern has at most one way to match at a position: an optional separator
\* is taken when it is there, and [a-z]+ takes the whole run of lower-case
\* letters (a shorter run is followed by a letter, neither a space nor \b)
piiMatch(input, j, pattern) ==
  LET at(k) == IF k \in 1..Len(input) THEN input[k] ELSE "outside"
      \* \b before position k
      boundary(k) == (at(k - 1) \in WordChars) # (at(k) \in WordChars)
      digits(k, n) == \A d \in 0..(n - 1) : at(k + d) \in Digits
      sep(k) == IF at(k) \in {"-", ".", " "} THEN 1 ELSE 0
      \* /\b\d{3}[-.\s]?\d{2}[-.\s]?\d{4}\b/
      ssnEnd(a, b) ==
        IF /\ digits(j, 3)
           /\ digits(j + 3 + a, 2)
           /\ digits(j + 5 + a + b, 4)
           /\ boundary(j + 9 + a + b)
          THEN 9 + a + b ELSE 0
      ssn(a) == ssnEnd(a, sep(j + 5 + a))
      \* /\b\d{2}\/\d{2}\/\d{4}\b/ and /\b\d{2}-\d{2}-\d{4}\b/
      dob(separator) ==
        IF /\ digits(j, 2)
           /\ at(j + 2) = separator
           /\ digits(j + 3, 2)
           /\ at(j + 5) = separator
           /\ digits(j + 6, 4)
           /\ boundary(j + 10)
          THEN 10 ELSE 0
      \* /\b[A-Z][a-z]+ [A-Z][a-z]+\b/
      second(n, m) ==
        IF m > 0 /\ boundary(j + n + 3 + m) THEN n + 3 + m ELSE 0
      first(n) ==
        IF n > 0 /\ at(j + n + 1) = " " /\ at(j + n + 2) \in Uppers
          THEN second(n, runLength(input, j + n + 3, Lowers)) ELSE 0
      fullName ==
        IF at(j) \in Uppers THEN first(runLength(input, j + 1, Lowers)) ELSE 0
  IN  IF ~boundary(j) THEN 0
      ELSE IF pattern = 1 THEN ssn(sep(j + 3))
      ELSE IF pattern = 2 THEN dob("/")
      ELSE IF pattern = 3 THEN dob("-")
      ELSE fullName

\* PII_PATTERNS.some(pattern => pattern.test(input))
containsPII(input) ==
  \E pattern \in 1..4, j \in DOMAIN input : piiMatch(input, j, pattern) > 0

\* sanitized.replace(pattern, '[REDACTED]'), the pattern having no g flag:
\* the leftmost match is replaced, the others stay
replaceFirst(input, pattern) ==
  LET cut(j, n) ==
        SubSeq(input, 1, j - 1)
        \o <<"[", "R", "E", "D", "A", "C", "T", "E", "D", "]">>
        \o SubSeq(input, j + n, Len(input))
      leftmost(hits) ==
        IF hits = {} THEN input
        ELSE \* the position of the leftmost match
             LET first(j) == cut(j, piiMatch(input, j, pattern))
             IN  first(CHOOSE j \in hits : \A k \in hits : j <= k)
  IN  leftmost({j \in DOMAIN input : piiMatch(input, j, pattern) > 0})

\* sanitizeInput: the warning when a pattern matches, and the input with the
\* four patterns replaced in turn
sanitizeInput(input) ==
  [sanitized |->
     replaceFirst(replaceFirst(replaceFirst(replaceFirst(input, 1), 2), 3), 4),
   warnings |->
     IF containsPII(input)
       THEN <<"Personal information detected and removed for privacy.">>
       ELSE <<>>]

\* the content of the last message, of whatever role
lastMessage(messages) ==
  IF messages = <<>> THEN "undefined" ELSE messages[Len(messages)].content

\* messages.filter(m => m.role === 'user').pop(): the content of the last
\* user message, or "undefined"
lastUserMessage(messages) ==
  LET users == {i \in DOMAIN messages : messages[i].role = "user"}
  IN  IF users = {} THEN "undefined"
      ELSE messages[CHOOSE i \in users : \A j \in users : j <= i].content

\* the two checks in the other order
piiFirst(last) ==
  IF last = "undefined" THEN "none"
  ELSE IF containsPII(last) THEN "privacy redirect"
  ELSE IF isOffTopic(last) THEN "off-topic redirect"
  ELSE "none"

\* the guardrail of both entry points: the canned text returned before any
\* request, or "none"
guardrail(last) ==
  IF last = "undefined" THEN "none"
  ELSE IF isOffTopic(last) THEN "off-topic redirect"
  ELSE IF containsPII(last) THEN "privacy redirect"
  ELSE "none"

\* what chat.completions.create may do: reject, or answer with a content that
\* is absent, short, or longer than 200 characters with or without one of the
\* phrases 'not legal advice' and 'consult'
ChatResponses ==
  {"error", "no content", "short", "long with phrase", "long plain"}

\* the message texts of a conversation: "is 211 pc serious",
\* "Tell me a JOKE", "John Smith has 211 pc", "ssn 123-45-6789",
\* "John Smith likes music"
ChatTexts ==
  {<<"i", "s", " ", "2", "1", "1", " ", "p", "c", " ", "s", "e", "r",
     "i", "o", "u", "s">>,
   <<"T", "e", "l", "l", " ", "m", "e", " ", "a", " ", "J", "O", "K",
     "E">>,
   <<"J", "o", "h", "n", " ", "S", "m", "i", "t", "h", " ", "h", "a",
     "s", " ", "2", "1", "1", " ", "p", "c">>,
   <<"s", "s", "n", " ", "1", "2", "3", "-", "4", "5", "-", "6", "7",
     "8", "9">>,
   <<"J", "o", "h", "n", " ", "S", "m", "i", "t", "h", " ", "l", "i",
     "k", "e", "s", " ", "m", "u", "s", "i", "c">>}

\* the messages argument of a call
ChatHistories ==
  SeqsUpTo([role : {"user", "assistant"}, content : ChatTexts], MaxMessages)

\* chatAboutAnalysis up to its await: the guardrail text, or the request
ChatAboutAnalysis(messages) ==
  /\ chatPc = "idle"
  /\ chatCall' = [entry |-> "chatAboutAnalysis", messages |-> messages]
  /\ \E canned \in {guardrail(lastUserMessage(messages))} :
       IF canned # "none"
         THEN /\ chatReply' = [kind |-> "returned", text |-> canned,
                               footer |-> FALSE]
              /\ chatPc' = "done"
              /\ UNCHANGED chatRequests
         ELSE /\ chatRequests' = Append(chatRequests, messages)
              /\ chatPc' = "awaiting"
              /\ UNCHANGED chatReply
  /\ UNCHANGED <<aggInput, aggResult, lookupLog, parseInput, parsedCode,
                 tableVars, verifyVars, batchVars, retry, chatUi, session>>

\* chatAboutAnalysis after its await: the content, with the disclaimer footer
\* when it is long and has none of the phrases; a rejection is rethrown
ChatResponds(resp) ==
  /\ chatPc = "awaiting"
  /\ chatCall.entry = "chatAboutAnalysis"
  /\ chatReply' =
       IF resp = "error" THEN [kind |-> "thrown"]
       ELSE IF resp = "no content"
         THEN [kind |-> "returned", text |-> "unable to generate a response",
               footer |-> FALSE]
       ELSE [kind |-> "returned", text |-> resp, footer |-> resp = "long plain"]
  /\ chatPc' = "done"
  /\ UNCHANGED <<chatCall, chatRequests, aggInput, aggResult, lookupLog,
                 parseInput, parsedCode, tableVars, verifyVars, batchVars, retry, chatUi, session>>

\* streamChatResponse up to its await: the guardrail text yielded, or the
\* request
StreamChatResponse(messages) ==
  /\ chatPc = "idle"
  /\ chatCall' = [entry |-> "streamChatResponse", messages |-> messages]
  /\ \E canned \in {guardrail(lastUserMessage(messages))} :
       IF canned # "none"
         THEN /\ chatReply' = [kind |-> "yielded", text |-> canned,
                               footer |-> FALSE]
              /\ chatPc' = "done"
              /\ UNCHANGED chatRequests
         ELSE /\ chatRequests' = Append(chatRequests, messages)
              /\ chatPc' = "awaiting"
              /\ UNCHANGED chatReply
  /\ UNCHANGED <<aggInput, aggResult, lookupLog, parseInput, parsedCode,
                 tableVars, verifyVars, batchVars, retry, chatUi, session>>

\* streamChatResponse after its await: the chunks with a content, as they
\* come; a rejection of the request leaves the generator by the exception
StreamResponds(resp) ==
  /\ chatPc = "awaiting"
  /\ chatCall.entry = "streamChatResponse"
  /\ chatReply' =
       IF resp = "error" THEN [kind |-> "thrown"]
       ELSE IF resp = "no content"
         THEN [kind |-> "yielded", text |-> "", footer |-> FALSE]
       ELSE [kind |-> "yielded", text |-> resp, footer |-> FALSE]
  /\ chatPc' = "done"
  /\ UNCHANGED <<chatCall, chatRequests, aggInput, aggResult, lookupLog,
                 parseInput, parsedCode, tableVars, verifyVars, batchVars, retry, chatUi, session>>

InitChat ==
  /\ penalCodes = penalCodesLoaded
  /\ openaiKeySet = TRUE
  /\ VerifyIdle
  /\ BatchIdle
  /\ aggInput = <<>>
  /\ aggResult = NoAnalysis
  /\ lookupLog = <<>>
  /\ parseInput = <<>>
  /\ parsedCode = Pending
  /\ ChatIdle
  /\ retry = [pc |-> "idle"]
  /\ chatUi = [messages |-> <<>>, isStreaming |-> FALSE, input |-> <<>>,
               warnings |-> <<>>]
  /\ session = [extractions |-> {}, submissions |-> <<>>,
                cleared |-> FALSE]

SpecChat ==
  InitChat
  /\ [][\/ \E messages \in ChatHistories : ChatAboutAnalysis(messages)
        \/ \E resp \in ChatResponses : ChatResponds(resp)
        \/ \E messages \in ChatHistories : StreamChatResponse(messages)
        \/ \E resp \in ChatResponses : StreamResponds(resp)]_vars

(***************************************************************************)
(* Properties of the aggregation (SpecAggregate)                           *)
(***************************************************************************)
\* the three-way precedence over records, the legacy values read as
\* has-exemption-path
precedence(impacts) ==
  IF \E i \in DOMAIN impacts : impacts[i] = "mandatory-disqualifier"
    THEN "mandatory-disqualifier"
  ELSE IF \E i \in DOMAIN impacts : normalizedImpact(impacts[i]) = "has-exemption-path"
    THEN "has-exemption-path"
  ELSE "non-disqualifying"

\* C11: the overall status computed from a list of records is
\* mandatory-disqualifier if any record is one, otherwise has-exemption-path
\* if any record has an exemption path, otherwise non-disqualifying, whatever
\* the counts and the order; it is never another value.
C11_OverallStatusPrecedence ==
  (aggResult # NoAnalysis /\ aggResult.fn # "generateSummary") =>
    /\ aggResult.result.overallStatus \in
         {"mandatory-disqualifier", "has-exemption-path", "non-disqualifying"}
    /\ aggResult.result.overallStatus =
         precedence(IF aggResult.fn = "transformToDisqualificationAnalysis"
                      THEN [i \in DOMAIN aggResult.offenses |->
                              aggResult.offenses[i].k12Impact]
                      ELSE impactsOf(aggInput))

\* the positions of the batch whose classification is a legacy value
legacyRecords ==
  {i \in DOMAIN aggInput :
     aggInput[i].k12Classification \in {"review-required", "unknown"}}

\* C12: every record classified review-required or unknown is treated as
\* has-exemption-path by the aggregation: it is counted in the summary's
\* hasExemptionPath, and a batch holding such a record gets neither the
\* all-clear recommendation nor the non-disqualifying overall status.
C12_LegacyNormalized ==
  (/\ aggResult # NoAnalysis
   /\ aggResult.fn # "analyzeOffensesEarlier"
   /\ legacyRecords # {}) =>
    IF aggResult.fn = "generateSummary"
      THEN /\ aggResult.result.hasExemptionPath =
                Cardinality({i \in DOMAIN aggInput :
                  normalizedImpact(aggInput[i].k12Classification)
                    = "has-exemption-path"})
           /\ aggResult.result.overallRecommendation # "all-clear template"
    ELSE IF aggResult.fn = "analyzeOffenses"
      THEN /\ legacyRecords \subseteq aggResult.result.hasExemptionPath
           /\ aggResult.result.overallStatus # "non-disqualifying"
           /\ \A k \in DOMAIN aggResult.result.recommendations :
                aggResult.result.recommendations[k].template # "all-clear"
    ELSE /\ legacyRecords \subseteq aggResult.result.hasExemptionPath
         /\ aggResult.result.overallStatus # "non-disqualifying"
         /\ aggResult.result.recommendations # <<"all-clear template">>

\* the template the counts of a result call for
templateFor(mandatory, exemption, disqualifier, exemptionText, allClear) ==
  IF mandatory THEN disqualifier
  ELSE IF exemption THEN exemptionText
  ELSE allClear

C14_SummaryReflectsTables ==
  analysis # NoAnalysis =>
    LET violent == {i \in DOMAIN bCodes : localRun[i].isViolentFelony}
    IN  violent # {} =>
          /\ analysis.summary.mandatoryDisqualifiers >= Cardinality(violent)
          /\ transformToDisqualificationAnalysis(analysis).overallStatus
               = "mandatory-disqualifier"

(***************************************************************************)
(* Properties of lookupCode (SpecLookup)                                   *)
(***************************************************************************)
\* C15: for every code of the violent-felony table lookupCode returns k12Impact
\* mandatory-disqualifier, isViolentFelony true and category 'Violent Felony',
\* also when the number matches entries of the penal-code, serious-felony or
\* NCIC table.  The lookups concerned are those of a number the
\* violent-felony table holds, the input not being a bare NCIC number.
C15_ViolentIsMandatory ==
  \A k \in {j \in DOMAIN lookupLog :
            /\ parseCodeString(lookupLog[j].input).statute # NCIC
            /\ findOffense(violentFelonies,
                 parseCodeString(lookupLog[j].input).normalizedCode).found} :
    /\ lookupLog[k].result.k12Impact = "mandatory-disqualifier"
    /\ lookupLog[k].result.isViolentFelony
    /\ lookupLog[k].result.category = "Violent Felony"

\* the flags of one offense record agree with its k12Impact
flagsAgree(record) ==
  /\ record.isViolentFelony => record.k12Impact = "mandatory-disqualifier"
  /\ (record.k12Impact = "mandatory-disqualifier" /\ ~record.isViolentFelony)
       => record.isSeriousFelony

\* C16: every offense record produced, by lookupCode for any input and any
\* table contents and by transformToOffenseInfoArray for any analysis,
\* satisfies: isViolentFelony implies k12Impact mandatory-disqualifier, and
\* k12Impact mandatory-disqualifier without isViolentFelony implies
\* isSeriousFelony.
C16_FlagsAgree ==
  /\ \A k \in DOMAIN lookupLog : flagsAgree(lookupLog[k].result)
  /\ (aggResult # NoAnalysis
      /\ aggResult.fn = "transformToDisqualificationAnalysis") =>
       \A i \in DOMAIN aggResult.offenses : flagsAgree(aggResult.offenses[i])

\* C17: lookupCode only reads the reference tables: after any sequence of
\* lookups the tables, the citation lists stored in them included, are as
\* loaded, and a repeated lookup of an input returns an equal record.
C17_PureRead ==
  /\ penalCodes \in PenalTables
  /\ \A k, l \in DOMAIN lookupLog :
       lookupLog[k].input = lookupLog[l].input
         => lookupLog[k].result = lookupLog[l].result

(***************************************************************************)
(* Properties of parseCodeString (SpecParse)                               *)
(***************************************************************************)
\* two ParsedCode agree on number, subdivision and statute
sameCode(a, b) ==
  /\ a.normalizedCode = b.normalizedCode
  /\ a.subdivision = b.subdivision
  /\ a.statute = b.statute

\* C18: for every number N, with or without subdivisions, and every statute
\* token T of PC, HS, VC, BP, WI, FC, parseCodeString gives the same normalized
\* number, subdivision and statute for 'N T' and for 'T N', whatever the
\* letter case of T.
C18_OrderAndCase ==
  parsedCode # Pending =>
    \A number \in ParseNumbers, token \in ParseWords :
      (/\ toUpperCase(token) \in StatuteTokens
       /\ parseInput \in {written(<<>>, number, token),
                          written(token, number, <<>>)}) =>
        \A other \in ParseWords :
          toUpperCase(other) = toUpperCase(token) =>
            /\ sameCode(parsedCode,
                        parseCodeString(written(<<>>, number, other)))
            /\ sameCode(parsedCode,
                        parseCodeString(written(other, number, <<>>)))

\* "667.5(c) hs" was parsed: statute HS, number 667.5, subdivision (C)
C18_Witness ==
  /\ parsedCode # Pending
  /\ parseInput = written(<<>>, <<"6", "6", "7", ".", "5", "(", "c", ")">>,
                          <<"h", "s">>)
  /\ parsedCode.statute = HS
  /\ parsedCode.normalizedCode = <<"6", "6", "7", ".", "5">>
  /\ parsedCode.subdivision = <<"(", "C", ")">>

\* C19: parseCodeString always returns a statute type of PC, HS, VC, BP, WI,
\* FC, NCIC, UNKNOWN: exactly four digits give NCIC, a bare number PC, a
\* number with one recognised token before or after it that token, and every
\* other input (a number with an unrecognised word, or with a word on both
\* sides, included) UNKNOWN.
C19_StatuteTypes ==
  parsedCode # Pending =>
    /\ parsedCode.statute \in StatuteTokens \cup {NCIC, UNKNOWN}
    /\ LET ruled(pieces) ==
             IF Len(pieces) = 1 /\ isFourDigits(pieces[1]) THEN NCIC
             ELSE IF Len(pieces) = 1 /\ isCodeNum(pieces[1]) THEN PC
             ELSE IF /\ Len(pieces) = 2
                     /\ pieces[1] \in StatuteTokens
                     /\ isCodeNum(pieces[2])
               THEN pieces[1]
             ELSE IF /\ Len(pieces) = 2
                     /\ isCodeNum(pieces[1])
                     /\ pieces[2] \in StatuteTokens
               THEN pieces[2]
             ELSE UNKNOWN
       IN parsedCode.statute =
            ruled(splitSpaces(toUpperCase(trim(parseInput)), <<>>))

(***************************************************************************)
(* Properties of the chat entry points (SpecChat)                          *)
(***************************************************************************)
\* the last user message of the call has a keyword of the deny-list
offTopicTurn ==
  /\ chatCall.entry # "none"
  /\ \E i \in DOMAIN chatCall.messages :
       /\ chatCall.messages[i].role = "user"
       /\ \A j \in DOMAIN chatCall.messages :
            chatCall.messages[j].role = "user" => j <= i
       /\ \E keyword \in OFF_TOPIC_KEYWORDS :
            includes(toLowerCase(chatCall.messages[i].content), keyword)

\* C20: if the last user message contains a keyword of the off-topic
\* deny-list, chatAboutAnalysis and streamChatResponse return only the canned
\* redirect text and send no request to the chat oracle for that turn.
C20_OffTopicShortCircuit ==
  offTopicTurn =>
    /\ chatPc = "done"
    /\ chatRequests = <<>>
    /\ chatReply.kind =
         (IF chatCall.entry = "chatAboutAnalysis" THEN "returned" ELSE "yielded")
    /\ chatReply.text = "off-topic redirect"
    /\ ~chatReply.footer

\* streamChatResponse was called with "Tell me a JOKE" from the user followed
\* by an assistant message, and yielded the redirect
C20_Witness ==
  /\ offTopicTurn
  /\ chatCall.entry = "streamChatResponse"
  /\ Len(chatCall.messages) = 2
  /\ chatCall.messages[1].role = "user"
  /\ chatCall.messages[2].role = "assistant"
  /\ ~isOffTopic(chatCall.messages[2].content)
  /\ chatReply # Pending
  /\ chatReply.text = "off-topic redirect"

(***************************************************************************)
(* Properties of the local stage of verifyCode (SpecVerify)                *)
(***************************************************************************)
\* C30: the local stage can settle a verification: the record lookupCode
\* returns for a code matched by the local reference tables passes the
\* stage-1 test of verifyCode (verified, confidence high) and the call returns
\* source local; the record of a code absent from every table fails the test
\* and the call goes on to stage 2.
C30_LocalStageSettles ==
  vPc # "idle" =>
    IF vLocal.k12Impact # "unknown"
      THEN /\ stage1Accepts(vLocal)
           /\ vPc = "done"
           /\ vResult.source = "local"
      ELSE /\ ~stage1Accepts(vLocal)
           /\ Len(vConsulted) >= 2
           /\ vConsulted[2] = "gemini-rag"

(***************************************************************************)
(* withRetry, as analyzeOffenseCode calls it around chat.completions.create *)
(* (the arguments vary here; analyzeOffenseCode passes the defaults), one   *)
(* step per await                                                           *)
(***************************************************************************)
\* withRetry(fn, maxRetries, baseDelayMs) up to its first await: fn is called,
\* or the loop is not entered and lastError, still undefined, is thrown
WithRetry(maxRetriesArg, baseDelayMs) ==
  /\ retry.pc = "idle"
  /\ openaiKeySet
  /\ retry' =
       [pc |-> IF 0 < maxRetriesArg THEN "attempt" ELSE "thrown",
        maxRetries |-> maxRetriesArg,
        baseDelayMs |-> baseDelayMs,
        attempt |-> 0,
        calls |-> IF 0 < maxRetriesArg THEN 1 ELSE 0,
        delays |-> <<>>,
        errors |-> <<>>,
        lastError |-> "undefined",
        value |-> Pending,
        analysis |-> IF 0 < maxRetriesArg THEN Pending
                     ELSE analyzeOffenseCode(Code211, GptFailed)]
  /\ UNCHANGED <<tableVars, verifyVars, batchVars, aggInput, aggResult,
                 lookupLog, parseInput, parsedCode, chatVars, chatUi,
                 session>>

\* fn resolves: withRetry returns the response and analyzeOffenseCode reads
\* its content
AttemptReturns(resp) ==
  /\ retry.pc = "attempt"
  /\ retry' = [retry EXCEPT !.pc = "returned",
                            !.value = resp,
                            !.analysis = analyzeOffenseCode(Code211, resp)]
  /\ UNCHANGED <<tableVars, verifyVars, batchVars, aggInput, aggResult,
                 lookupLog, parseInput, parsedCode, chatVars, chatUi,
                 session>>

\* an attempt that fails at once, whatever the attempts left
giveUp(error) ==
  /\ retry.pc = "attempt"
  /\ retry' = [retry EXCEPT !.pc = "thrown",
                            !.lastError = error,
                            !.errors = Append(@, error),
                            !.analysis = analyzeOffenseCode(Code211, GptFailed)]
  /\ UNCHANGED <<tableVars, verifyVars, batchVars, aggInput, aggResult,
                 lookupLog, parseInput, parsedCode, chatVars, chatUi,
                 session>>

\* fn rejects: the timer of the backoff is set, or (last attempt) the loop
\* ends, lastError is thrown and analyzeOffenseCode falls back
AttemptThrows(error) ==
  /\ retry.pc = "attempt"
  /\ retry' =
       IF retry.attempt < retry.maxRetries - 1
         THEN [retry EXCEPT !.pc = "backoff",
                            !.lastError = error,
                            !.errors = Append(@, error),
                            !.delays = Append(@, retry.baseDelayMs
                                                   * 2 ^ retry.attempt)]
         ELSE [retry EXCEPT !.pc = "thrown",
                            !.lastError = error,
                            !.errors = Append(@, error),
                            !.analysis =
                               analyzeOffenseCode(Code211, GptFailed)]
  /\ UNCHANGED <<tableVars, verifyVars, batchVars, aggInput, aggResult,
                 lookupLog, parseInput, parsedCode, chatVars, chatUi,
                 session>>

\* the timer fires: attempt++ and fn is called again
BackoffElapsed ==
  /\ retry.pc = "backoff"
  /\ retry' = [retry EXCEPT !.pc = "attempt",
                            !.attempt = @ + 1,
                            !.calls = @ + 1]
  /\ UNCHANGED <<tableVars, verifyVars, batchVars, aggInput, aggResult,
                 lookupLog, parseInput, parsedCode, chatVars, chatUi,
                 session>>

\* fn settles and timers fire
SpecRetry ==
  /\ Init
  /\ [][\/ \E maxRetriesArg \in 0..maxRetries, baseDelayMs \in {1000, 250} :
             WithRetry(maxRetriesArg, baseDelayMs)
        \/ \E resp \in GptResponses : AttemptReturns(resp)
        \/ \E error \in {"timeout", "rate limit"} : AttemptThrows(error)
        \/ BackoffElapsed]_vars
  /\ WF_vars(\E resp \in GptResponses : AttemptReturns(resp))
  /\ WF_vars(\E error \in {"timeout", "rate limit"} : AttemptThrows(error))
  /\ WF_vars(BackoffElapsed)

(***************************************************************************)
(* Properties of withRetry (SpecRetry)                                     *)
(***************************************************************************)
\* C26: withRetry calls fn at most maxRetries times, returns the first
\* successful value without another call, waits baseDelayMs * 2^k after the
\* k-th failed attempt (k from 0) and not after the last one, rethrows the
\* last error after maxRetries failures, and always ends when fn settles.
\* Only the call is retried: an empty or unparseable response gives the
\* fallback record of analyzeOffenseCode without another attempt.
C26_RetryBudget ==
  /\ [](retry.pc # "idle" =>
         /\ retry.calls <= retry.maxRetries
         /\ \A k \in DOMAIN retry.delays :
              retry.delays[k] = retry.baseDelayMs * 2 ^ (k - 1)
         /\ Len(retry.delays) < retry.maxRetries \/ retry.maxRetries = 0
         /\ retry.pc = "attempt" =>
              /\ Len(retry.errors) = retry.calls - 1
              /\ Len(retry.delays) = retry.calls - 1
         /\ retry.pc = "backoff" =>
              /\ Len(retry.errors) = retry.calls
              /\ Len(retry.delays) = retry.calls
         /\ retry.pc = "returned" =>
              /\ Len(retry.errors) = retry.calls - 1
              /\ Len(retry.delays) = retry.calls - 1
              /\ retry.analysis = analyzeOffenseCode(Code211, retry.value)
              /\ retry.value.kind \in {"empty", "badjson"} =>
                   retry.analysis = conservativeFallback(Code211)
         /\ retry.pc = "thrown" =>
              /\ retry.calls = retry.maxRetries
              /\ Len(retry.errors) = retry.calls
              /\ Len(retry.delays) = IF retry.calls = 0 THEN 0
                                     ELSE retry.calls - 1
              /\ retry.lastError =
                   IF retry.errors = <<>> THEN "undefined"
                   ELSE retry.errors[Len(retry.errors)]
              /\ retry.analysis = conservativeFallback(Code211))
  /\ (retry.pc \in {"attempt", "backoff"}
        ~> retry.pc \in {"returned", "thrown"})

\* three attempts failed, with waits of 1000 and 2000 ms between them, and
\* the last error was rethrown
C26_Witness ==
  /\ retry.pc = "thrown"
  /\ retry.maxRetries = 3
  /\ retry.calls = 3
  /\ retry.delays = <<1000, 2000>>
  /\ retry.errors = <<"timeout", "timeout", "rate limit">>
  /\ retry.lastError = "rate limit"

(***************************************************************************)
(* Properties of the privacy guardrail (SpecChat)                          *)
(***************************************************************************)
\* C21: if the last user message matches a PII pattern, chatAboutAnalysis and
\* streamChatResponse return only a canned text and send no request to the
\* chat oracle for that turn; the text is the privacy redirect, unless the
\* message is off-topic as well: the off-topic check comes first and its
\* redirect is the one returned.
C21_PrivacyShortCircuit ==
  \A i \in DOMAIN chatCall.messages :
    ( /\ chatCall.messages[i].role = "user"
      /\ \A j \in DOMAIN chatCall.messages :
           chatCall.messages[j].role = "user" => j <= i
      /\ containsPII(chatCall.messages[i].content) ) =>
        /\ chatPc = "done"
        /\ chatRequests = <<>>
        /\ chatReply.kind \in {"returned", "yielded"}
        /\ ~chatReply.footer
        /\ chatReply.text =
             IF isOffTopic(chatCall.messages[i].content)
               THEN "off-topic redirect" ELSE "privacy redirect"

\* streamChatResponse was called with an assistant message and then
\* "ssn 123-45-6789" from the user, and yielded the privacy redirect without
\* a request
C21_Witness ==
  /\ chatCall.entry = "streamChatResponse"
  /\ Len(chatCall.messages) = 2
  /\ chatCall.messages[1].role = "assistant"
  /\ chatCall.messages[2].role = "user"
  /\ containsPII(chatCall.messages[2].content)
  /\ ~isOffTopic(chatCall.messages[2].content)
  /\ chatCall.messages[2].content[1] = "s"
  /\ chatRequests = <<>>
  /\ chatReply # Pending
  /\ chatReply.kind = "yielded"
  /\ chatReply.text = "privacy redirect"

(***************************************************************************)
(* Properties of the disclaimer footer (SpecChat)                          *)
(***************************************************************************)
\* C23: every assistant response longer than 200 characters that holds none
\* of the disclaimer phrases gets the standard disclaimer footer before it is
\* shown, on the single-string path (chatAboutAnalysis) and on the streaming
\* path (streamChatResponse, the one the chat components use).
C23_DisclaimerFooter ==
  (chatPc = "done" /\ chatReply.kind \in {"returned", "yielded"}) =>
    (chatReply.footer <=> chatReply.text = "long plain")

(***************************************************************************)
(* The chat component (AIChat, ChatDrawer): handleSubmit, one step per     *)
(* await.  chatPc, chatCall, chatRequests and chatReply are those of the   *)
(* streamChatResponse generator it runs.                                   *)
(***************************************************************************)
\* accepted submits in one behaviour
MaxTurns == 2

\* what the user types: the message texts, a blank input, and
\* "John Smith and Jane Doe"
UiInputs ==
  ChatTexts
  \cup {<<" ", " ">>,
        <<"J", "o", "h", "n", " ", "S", "m", "i", "t", "h", " ", "a", "n",
          "d", " ", "J", "a", "n", "e", " ", "D", "o", "e">>}

\* a submit that does not look at isStreaming
submitAlways(input) ==
  /\ Len(chatUi.messages) < 2 * MaxTurns
  /\ trim(input) # <<>>
  /\ \E updatedMessages \in
         {Append(chatUi.messages,
                 [role |-> "user",
                  content |-> sanitizeInput(trim(input)).sanitized])} :
       /\ chatUi' = [chatUi EXCEPT !.messages = updatedMessages,
                                   !.isStreaming = TRUE]
       /\ chatCall' = [entry |-> "streamChatResponse",
                       messages |-> updatedMessages]
       /\ chatRequests' = Append(chatRequests, updatedMessages)
       /\ chatPc' = "awaiting"
       /\ chatReply' = Pending
  /\ UNCHANGED <<tableVars, verifyVars, batchVars, aggInput, aggResult,
                 lookupLog, parseInput, parsedCode, retry, session>>

\* handleSubmit up to its first await: the early return, or the sanitized
\* user message appended, isStreaming set, and streamChat(updatedMessages)
\* run up to its first yield (a guardrail text) or to its request
HandleSubmit(input) ==
  /\ Len(chatUi.messages) < 2 * MaxTurns
  /\ IF trim(input) = <<>> \/ chatUi.isStreaming
       THEN UNCHANGED <<chatUi, chatVars>>
       ELSE \E result \in {sanitizeInput(trim(input))} :
              \E updatedMessages \in
                  {Append(chatUi.messages,
                          [role |-> "user", content |-> result.sanitized])} :
                /\ chatUi' = [messages |-> updatedMessages,
                              isStreaming |-> TRUE,
                              input |-> trim(input),
                              warnings |-> result.warnings]
                /\ chatCall' = [entry |-> "streamChatResponse",
                                messages |-> updatedMessages]
                /\ \E canned \in {guardrail(lastUserMessage(updatedMessages))} :
                     IF canned # "none"
                       THEN /\ chatReply' = [kind |-> "yielded",
                                             text |-> canned,
                                             footer |-> FALSE]
                            /\ chatPc' = "done"
                            /\ UNCHANGED chatRequests
                       ELSE /\ chatRequests' =
                                 Append(chatRequests, updatedMessages)
                            /\ chatPc' = "awaiting"
                            /\ chatReply' = Pending
  /\ UNCHANGED <<tableVars, verifyVars, batchVars, aggInput, aggResult,
                 lookupLog, parseInput, parsedCode, retry, session>>

\* handleSubmit after the for await: the stream ended (its text becomes the
\* assistant message) or failed (the apology does); finally isStreaming is
\* reset
StreamEnds(resp) ==
  /\ chatUi.isStreaming
  /\ chatReply' =
       IF chatPc = "done" THEN chatReply
       ELSE IF resp = "error" THEN [kind |-> "thrown"]
       ELSE IF resp = "no content"
         THEN [kind |-> "yielded", text |-> "", footer |-> FALSE]
       ELSE [kind |-> "yielded", text |-> resp, footer |-> FALSE]
  /\ chatPc' = "done"
  /\ chatUi' =
       [chatUi EXCEPT
          !.isStreaming = FALSE,
          !.messages =
             Append(@, [role |-> "assistant",
                        content |-> IF chatReply'.kind = "thrown"
                                      THEN "error apology"
                                      ELSE chatReply'.text])]
  /\ UNCHANGED <<chatCall, chatRequests, tableVars, verifyVars, batchVars,
                 aggInput, aggResult, lookupLog, parseInput, parsedCode, retry,
                 session>>

SpecChatUi ==
  InitChat
  /\ [][\/ \E input \in UiInputs : HandleSubmit(input)
        \/ \E resp \in ChatResponses : StreamEnds(resp)]_vars

(***************************************************************************)
(* Properties of the chat component (SpecChatUi)                           *)
(***************************************************************************)
\* C22: the text sanitizeInput returns has no span that matches a PII
\* pattern, however many matches the input had, and its warnings list is
\* non-empty exactly when the input had a match.  The call looked at is the
\* one of the last accepted submit: its argument is chatUi.input, its result
\* the content of the last user message and chatUi.warnings.
C22_SanitizedHasNoPII ==
  chatUi.input # <<>> =>
    /\ lastUserMessage(chatUi.messages) = sanitizeInput(chatUi.input).sanitized
    /\ ~containsPII(lastUserMessage(chatUi.messages))
    /\ (chatUi.warnings # <<>>) <=> containsPII(chatUi.input)


\* C27: at most one response stream is in flight in the chat component: a
\* submit while isStreaming is true, or with a blank input, changes nothing;
\* an accepted submit appends one user message and then one assistant
\* message (the streamed text, a guardrail text or the error apology), so
\* the transcript alternates user and assistant; and isStreaming is false
\* again once the stream has ended or failed.
C27_OneStreamInFlight ==
  /\ \A i \in DOMAIN chatUi.messages :
       /\ chatUi.messages[i].role = IF i % 2 = 1 THEN "user" ELSE "assistant"
       /\ i % 2 = 1 => trim(chatUi.messages[i].content) # <<>>
  /\ chatUi.isStreaming <=> Len(chatUi.messages) % 2 = 1
  /\ chatPc = "awaiting" => chatUi.isStreaming
  /\ 2 * Len(chatRequests) <= Len(chatUi.messages) + 1
  /\ (~chatUi.isStreaming /\ chatUi.messages # <<>>) =>
       /\ chatPc = "done"
       /\ chatUi.messages[Len(chatUi.messages)].content =
            IF chatReply.kind = "thrown" THEN "error apology"
            ELSE chatReply.text

\* two turns were completed: the first stream failed and the user got the
\* apology, the second was answered by the off-topic redirect
C27_Witness ==
  /\ Len(chatUi.messages) = 4
  /\ ~chatUi.isStreaming
  /\ chatUi.messages[2].content = "error apology"
  /\ chatUi.messages[4].content = "off-topic redirect"
  /\ Len(chatRequests) = 1


\* C28: over any sequence of chat turns, no request sent to the chat oracle
\* holds, in any message of the history forwarded, a text that matches a PII
\* pattern: what was refused or only partly redacted in an earlier turn is
\* not forwarded with a later one.
C28_NoPIIForwarded ==
  \A r \in DOMAIN chatRequests :
    \A i \in DOMAIN chatRequests[r] :
      chatRequests[r][i].role = "user" =>
        ~containsPII(chatRequests[r][i].content)

(***************************************************************************)
(* The page (App): handleCodesSubmit and handleClear over several          *)
(* submissions.  A submission comes from the manual entry form, shown      *)
(* while the status is idle, or from processFile of the uploader, which    *)
(* was started while the status was idle and calls onCodesExtracted when   *)
(* its extraction ends.  performComprehensiveAnalysis is taken as a whole: *)
(* it resolves with the records of its codes, or rejects for want of the   *)
(* classification client.                                                  *)
(***************************************************************************)
\* handleCodesSubmit calls in one behaviour
MaxSubmissions == 2

\* PdfUploader.processFile up to await extractCodesFromPDF(file)
ProcessFile(codes) ==
  /\ analysisStatus = "idle"
  /\ codes \notin session.extractions
  /\ Cardinality(session.extractions) + Len(session.submissions)
       < MaxSubmissions
  /\ session' = [session EXCEPT !.extractions = @ \cup {codes}]
  /\ UNCHANGED <<tableVars, verifyVars, batchVars, aggInput, aggResult,
                 lookupLog, parseInput, parsedCode, chatVars, retry, chatUi>>

\* handleCodesSubmit(codes) up to its await, called by the entry form
\* (fromFile false) or by processFile after its await (fromFile true)
HandleCodesSubmit(codes, fromFile) ==
  /\ Len(session.submissions) < MaxSubmissions
  /\ IF fromFile THEN codes \in session.extractions
                 ELSE analysisStatus = "idle"
  /\ session' =
       [extractions |-> IF fromFile THEN session.extractions \ {codes}
                        ELSE session.extractions,
        submissions |-> Append(session.submissions,
                               [codes |-> codes, state |-> "flight"]),
        cleared |-> FALSE]
  /\ extractedCodes' =
       [i \in DOMAIN codes |-> [code |-> codes[i], context |-> i]]
  /\ analysisStatus' = "analyzing"
  /\ penalCodes' = tableAfter(codes, Len(codes), penalCodes)
  /\ UNCHANGED <<openaiKeySet, verifyVars, analysis, bPc, bCodes, enrichRun,
                 aiRun, verifyRun, localRun, aiFailed, oracleAnswered, arrival,
                 aggInput, aggResult, lookupLog, parseInput, parsedCode,
                 chatVars, retry, chatUi>>

\* handleCodesSubmit of the k-th submission after its await: setAnalysis and
\* status complete, or the catch block and status error.  The result is the
\* one of a batch whose oracles all failed.
BatchSettles(k) ==
  /\ k \in DOMAIN session.submissions
  /\ session.submissions[k].state = "flight"
  /\ session' = [session EXCEPT !.submissions[k].state =
                                  IF openaiKeySet THEN "resolved"
                                  ELSE "rejected"]
  /\ IF openaiKeySet
       THEN /\ \E codes \in {session.submissions[k].codes} :
                 analysis' =
                   comprehensiveAnalysis(
                     codes,
                     [i \in DOMAIN codes |->
                        enrichOffenseCode(codes[i], "error", "error")],
                     [i \in DOMAIN codes |->
                        analyzeOffenseCode(codes[i], GptFailed)],
                     [i \in DOMAIN codes |-> allSourcesExhausted(codes[i])])
            /\ analysisStatus' = "complete"
       ELSE /\ analysisStatus' = "error"
            /\ UNCHANGED analysis
  /\ UNCHANGED <<tableVars, verifyVars, extractedCodes, bPc, bCodes, enrichRun,
                 aiRun, verifyRun, localRun, aiFailed, oracleAnswered, arrival,
                 aggInput, aggResult, lookupLog, parseInput, parsedCode,
                 chatVars, retry, chatUi>>

\* handleClear: the Clear All button of a completed analysis, or Try Again of
\* a failed one
HandleClear ==
  /\ analysisStatus \in {"complete", "error"}
  /\ extractedCodes' = <<>>
  /\ analysis' = NoAnalysis
  /\ analysisStatus' = "idle"
  /\ session' = [session EXCEPT !.cleared = TRUE]
  /\ UNCHANGED <<tableVars, verifyVars, bPc, bCodes, enrichRun,
                 aiRun, verifyRun, localRun, aiFailed, oracleAnswered, arrival,
                 aggInput, aggResult, lookupLog, parseInput, parsedCode,
                 chatVars, retry, chatUi>>

SpecSession ==
  Init
  /\ [][\/ \E codes \in Batches : ProcessFile(codes)
        \/ \E codes \in Batches, fromFile \in BOOLEAN :
             HandleCodesSubmit(codes, fromFile)
        \/ \E k \in 1..MaxSubmissions : BatchSettles(k)
        \/ HandleClear]_vars

(***************************************************************************)
(* Properties of the page (SpecSession)                                    *)
(***************************************************************************)
\* C24: when a new submission is made while an earlier batch is in flight,
\* the result slot ends up with the result of the latest submission: once the
\* latest batch has resolved, the analysis shown is the one of its codes, and
\* a completion of an earlier batch does not replace it.
C24_LatestSubmissionWins ==
  \A k \in DOMAIN session.submissions :
    ( /\ k = Len(session.submissions)
      /\ session.submissions[k].state = "resolved"
      /\ analysis # NoAnalysis ) =>
        /\ Len(analysis.codes) = Len(session.submissions[k].codes)
        /\ \A i \in DOMAIN analysis.codes :
             analysis.codes[i].code = session.submissions[k].codes[i]

\* C25: after Clear All the session holds no analysis data (extractedCodes
\* empty, analysis null, status idle) and stays so until codes are submitted
\* again: nothing but a new submission brings analysis data back.
C25_ClearedStaysCleared ==
  session.cleared =>
    /\ extractedCodes = <<>>
    /\ analysis = NoAnalysis
    /\ analysisStatus = "idle"

\* C29: whenever the status is complete, extractedCodes and analysis come
\* from the same submission: same length, and analysis.codes[i].code =
\* extractedCodes[i].code for every i.
C29_SameSubmission ==
  analysisStatus = "complete" =>
    /\ analysis # NoAnalysis
    /\ Len(analysis.codes) = Len(extractedCodes)
    /\ \A i \in DOMAIN extractedCodes :
         analysis.codes[i].code = extractedCodes[i].code

=============================================================================
